---- MODULE Spec2Model ----
(***************************************************************************)
(* A model of cconfig (cconfig.h): the lexer, the recursive-descent        *)
(* parser that builds the document tree, the path resolver with its typed  *)
(* accessors, and the serializer.                                          *)
(*                                                                         *)
(* Texts are sequences of one-character strings.  Positions into a text    *)
(* are 0-based as in the C code; At(inp, i) reads inp[i].  Pointers into   *)
(* the document tree are modelled as paths from the root table.            *)
(***************************************************************************)
EXTENDS Integers, Sequences, FiniteSets, TLC

(***************************************************************************)
(* Characters                                                              *)
(***************************************************************************)
NUL == "NUL"
BS == "BS"
\* The null pointer: of a value, a document, an array or a buffer (records),
\* of a table (paths), of a message (strings) and of a text (sequences).
NULL == [null |-> TRUE]
NULL_TABLE == <<<<0, 0>>>>
NULL_MESSAGE == "NULL"
NULL_STRING == <<NUL>>

Digits == {"0", "1", "2", "3", "4", "5", "6", "7", "8", "9"}

Alpha ==
    {"a", "b", "c", "d", "e", "f", "g", "h", "i", "j", "k", "l", "m",
     "n", "o", "p", "q", "r", "s", "t", "u", "v", "w", "x", "y", "z",
     "A", "B", "C", "D", "E", "F", "G", "H", "I", "J", "K", "L", "M",
     "N", "O", "P", "Q", "R", "S", "T", "U", "V", "W", "X", "Y", "Z"}

isdigit(c) == c \in Digits
isalpha(c) == c \in Alpha
isalnum(c) == c \in Alpha \cup Digits

\* inp[i] of the C code; the text is followed by its terminating NUL.
At(inp, i) == IF i >= 0 /\ i < Len(inp) THEN inp[i + 1] ELSE NUL

\* The n characters of inp starting at 0-based position start.
Slice(inp, start, n) == [k \in 1..n |-> At(inp, start + k - 1)]

(***************************************************************************)
(* Lexer                                                                   *)
(***************************************************************************)
is_at_end(inp, lx) == At(inp, lx.pos) = NUL

advance(lx) == [lx EXCEPT !.pos = @ + 1, !.col = @ + 1]

peek(inp, lx) == At(inp, lx.pos)

make_token(lx, type) ==
    [type |-> type, start |-> 0, len |-> 0, line |-> lx.line, col |-> lx.col,
     msg |-> ""]

error_token(lx, message) ==
    [type |-> "ERROR", start |-> 0, len |-> 0, line |-> lx.line,
     col |-> lx.col, msg |-> message]

RECURSIVE skip_whitespace(_, _)
skip_whitespace(inp, lx) ==
    IF peek(inp, lx) \in {" ", "\r", "\t"}
    THEN skip_whitespace(inp, advance(lx))
    ELSE lx

\* The scanning loop of string_token; yields the token and the lexer.
RECURSIVE string_loop(_, _, _, _, _)
string_loop(inp, lx, quote_char, is_multiline, start) ==
    LET end_string(l) ==
            [tok |-> [make_token(l, "STRING") EXCEPT
                          !.start = start, !.len = l.pos - start],
             lx |-> l]
    IN  IF is_at_end(inp, lx)
        THEN [tok |-> error_token(lx, "Unterminated string."), lx |-> lx]
        ELSE IF /\ peek(inp, lx) = quote_char
                /\ is_multiline
                /\ At(inp, lx.pos + 1) = quote_char
                /\ At(inp, lx.pos + 2) = quote_char
        THEN end_string(advance(advance(advance(lx))))
        ELSE IF peek(inp, lx) = quote_char /\ ~is_multiline
        THEN end_string(advance(lx))
        ELSE IF peek(inp, lx) = "\n" /\ ~is_multiline
        THEN [tok |-> error_token(lx,
                  "Unterminated string (newline in single-line string)."),
              lx |-> lx]
        ELSE LET l1 == IF peek(inp, lx) = "\n"
                       THEN [lx EXCEPT !.line = @ + 1, !.col = 0]
                       ELSE lx
                 l2 == IF quote_char = "\"" /\ peek(inp, l1) = "\\"
                       THEN advance(l1)
                       ELSE l1
             IN  string_loop(inp, advance(l2), quote_char, is_multiline, start)

string_token(inp, lx, quote_char) ==
    LET start == lx.pos - 1
        is_multiline == /\ peek(inp, lx) = quote_char
                        /\ At(inp, lx.pos + 1) = quote_char
        l0 == IF is_multiline THEN advance(advance(lx)) ELSE lx
    IN  string_loop(inp, l0, quote_char, is_multiline, start)

\* The loop of identifier_token: the lexer advances to the first character
\* at or after its position that is not of an identifier (the terminator at
\* the latest).
ident_loop(inp, lx) ==
    LET ident(k) == \/ isalnum(At(inp, k))
                    \/ At(inp, k) = "_"
                    \/ At(inp, k) = "-"
        stops == {k \in lx.pos..Len(inp) : ~ident(k)}
        end == CHOOSE k \in stops : \A j \in lx.pos..(k - 1) : ident(j)
    IN  [lx EXCEPT !.pos = end, !.col = @ + (end - lx.pos)]

identifier_token(inp, lx) ==
    LET start == lx.pos - 1
        l1 == ident_loop(inp, lx)
        len == l1.pos - start
        text == Slice(inp, start, len)
        type == IF text = <<"t", "r", "u", "e">>
                   \/ text = <<"f", "a", "l", "s", "e">>
                THEN "BOOLEAN"
                ELSE "IDENT"
    IN  [tok |-> [make_token(l1, type) EXCEPT !.start = start, !.len = len],
         lx |-> l1]

RECURSIVE digit_loop(_, _)
digit_loop(inp, lx) ==
    IF isdigit(peek(inp, lx)) THEN digit_loop(inp, advance(lx)) ELSE lx

RECURSIVE comment_loop(_, _)
comment_loop(inp, lx) ==
    IF peek(inp, lx) # "\n" /\ ~is_at_end(inp, lx)
    THEN comment_loop(inp, advance(lx))
    ELSE lx

\* The number branch of next_token (a leading digit, '-' or '+').
number_token(inp, lx, start_pos, start_col) ==
    LET in(k) == At(inp, start_pos + k)
        datelike == /\ isdigit(in(0))
                    /\ in(1) # NUL /\ in(2) # NUL /\ in(3) # NUL
                    /\ in(4) = "-"
                    /\ isdigit(in(5)) /\ isdigit(in(6))
                    /\ in(7) = "-"
                    /\ isdigit(in(8)) /\ isdigit(in(9))
        ld == [lx EXCEPT !.pos = start_pos + 10]
        l1 == digit_loop(inp, lx)
        hasdot == peek(inp, l1) = "."
        l2 == IF hasdot THEN digit_loop(inp, advance(l1)) ELSE l1
        hasexp == peek(inp, l2) \in {"e", "E"}
        l3 == IF hasexp THEN advance(l2) ELSE l2
        l4 == IF hasexp /\ peek(inp, l3) \in {"+", "-"}
              THEN advance(l3) ELSE l3
        l5 == IF hasexp THEN digit_loop(inp, l4) ELSE l2
        is_float == hasdot \/ hasexp
    IN  IF datelike
        THEN [tok |-> [make_token(ld, "DATETIME") EXCEPT
                           !.start = start_pos, !.len = ld.pos - start_pos,
                           !.col = start_col],
              lx |-> ld]
        ELSE [tok |-> [make_token(l5, IF is_float THEN "FLOAT" ELSE "INTEGER")
                           EXCEPT !.start = start_pos,
                                  !.len = l5.pos - start_pos,
                                  !.col = start_col],
              lx |-> l5]

Punct ==
    [c \in {"=", "[", "]", "{", "}", ",", "."} |->
        CASE c = "=" -> "EQUAL"
          [] c = "[" -> "LBRACKET"
          [] c = "]" -> "RBRACKET"
          [] c = "{" -> "LBRACE"
          [] c = "}" -> "RBRACE"
          [] c = "," -> "COMMA"
          [] c = "." -> "DOT"]

next_token(inp, lx0) ==
    LET lw == skip_whitespace(inp, lx0)
        start_pos == lw.pos
        start_col == lw.col
        c == peek(inp, lw)
        lx == advance(lw)
        finish(l, type, tokline) ==
            [tok |-> [type |-> type, start |-> start_pos,
                      len |-> l.pos - start_pos, line |-> tokline,
                      col |-> start_col, msg |-> ""],
             lx |-> l]
    IN  IF is_at_end(inp, lw)
        THEN [tok |-> make_token(lw, "EOF"), lx |-> lw]
        ELSE IF isalpha(c) \/ c = "_" THEN identifier_token(inp, lx)
        ELSE IF isdigit(c) \/ c = "-" \/ c = "+"
        THEN number_token(inp, lx, start_pos, start_col)
        ELSE IF c \in DOMAIN Punct THEN finish(lx, Punct[c], lx.line)
        ELSE IF c = "\n"
        THEN finish([lx EXCEPT !.line = @ + 1, !.col = 1], "NEWLINE", lx.line)
        ELSE IF c = "\"" \/ c = "'" THEN string_token(inp, lx, c)
        ELSE IF c = "#"
        THEN LET l1 == comment_loop(inp, lx) IN finish(l1, "COMMENT", l1.line)
        ELSE [tok |-> error_token(lx, "Unexpected character."), lx |-> lx]


(***************************************************************************)
(* Document model.  A value is a record tagged by type; a table is the     *)
(* sequence of its pairs in insertion order; an array is the sequence of   *)
(* its elements.  A pointer to a table inside the tree is the path to it   *)
(* from the root: a sequence of <<i, j>>, meaning "the table held by pair  *)
(* i" when j = 0 and "the table held by element j of the array held by     *)
(* pair i" when j > 0 (1-based).                                           *)
(***************************************************************************)
cconfig_table_t == <<>>
cconfig_array_t == <<>>

RECURSIVE TableAt(_, _)
TableAt(root, path) ==
    IF path = <<>> THEN root
    ELSE LET v == root[path[1][1]].value
             sub == IF path[1][2] = 0 THEN v.t ELSE v.a[path[1][2]].t
         IN  TableAt(sub, Tail(path))

RECURSIVE SetTableAt(_, _, _)
SetTableAt(root, path, tbl) ==
    IF path = <<>> THEN tbl
    ELSE LET i == path[1][1]
             j == path[1][2]
             v == root[i].value
         IN  IF j = 0
             THEN [root EXCEPT ![i].value.t = SetTableAt(v.t, Tail(path), tbl)]
             ELSE [root EXCEPT ![i].value.a[j].t =
                       SetTableAt(v.a[j].t, Tail(path), tbl)]

\* Index of the first pair of tbl whose key equals key, 0 when there is none
\* (the strncmp/strcmp scans over table->pairs).
FirstMatch(tbl, key) ==
    LET hits == {i \in 1..Len(tbl) : tbl[i].key = key}
    IN  IF hits = {} THEN 0
        ELSE CHOOSE i \in hits : \A k \in hits : i <= k

cconfig_table_add_pair(tbl, pair) == Append(tbl, pair)

cconfig_array_add_value(arr, value) == Append(arr, value)

\* find_or_create_table without the search: a table is created each time.
find_or_create_table_always_creates(root, parent, key) ==
    LET tbl == TableAt(root, parent)
        pair == [key |-> key,
                 value |-> [type |-> "TABLE", t |-> cconfig_table_t]]
    IN  [root |-> SetTableAt(root, parent, cconfig_table_add_pair(tbl, pair)),
         table |-> Append(parent, <<Len(tbl) + 1, 0>>)]

\* Yields the new root and the path of the table found or created, or
\* NULL_TABLE.
find_or_create_table(root, parent, key) ==
    LET tbl == TableAt(root, parent)
        i == FirstMatch(tbl, key)
        pair == [key |-> key,
                 value |-> [type |-> "TABLE", t |-> cconfig_table_t]]
    IN  IF i # 0
        THEN IF tbl[i].value.type = "TABLE"
             THEN [root |-> root, table |-> Append(parent, <<i, 0>>)]
             ELSE [root |-> root, table |-> NULL_TABLE]
        ELSE [root |-> SetTableAt(root, parent,
                                  cconfig_table_add_pair(tbl, pair)),
              table |-> Append(parent, <<Len(tbl) + 1, 0>>)]

(***************************************************************************)
(* Parser state and error latch                                            *)
(***************************************************************************)
\* "Error at line %d, col %d: %s"
ErrorText(line, col, message) ==
    [line |-> line, col |-> col, message |-> message]

\* parser_error without the panic_mode guard: a later error overwrites.
parser_error_overwrite(p, message) ==
    [p EXCEPT
        !.calls = Append(@, ErrorText(p.previous.line, p.previous.col, message)),
        !.error_buffer =
            IF p.error_buffer # NULL /\ p.error_buffer_size > 0
            THEN ErrorText(p.previous.line, p.previous.col, message)
            ELSE @,
        !.panic_mode = TRUE]

\* parser_error that returns before latching when there is no buffer.
parser_error_needs_buffer(p, message) ==
    LET logged == [p EXCEPT !.calls = Append(@,
                       ErrorText(p.previous.line, p.previous.col, message))]
    IN  IF p.panic_mode THEN logged
        ELSE IF p.error_buffer # NULL /\ p.error_buffer_size > 0
        THEN [logged EXCEPT
                 !.error_buffer =
                     ErrorText(p.previous.line, p.previous.col, message),
                 !.panic_mode = TRUE]
        ELSE logged

\* parser_error reporting the position of the current token.
parser_error_at_current(p, message) ==
    LET logged == [p EXCEPT !.calls = Append(@,
                       ErrorText(p.current.line, p.current.col, message))]
    IN  IF p.panic_mode THEN logged
        ELSE [logged EXCEPT
                 !.error_buffer =
                     IF p.error_buffer # NULL /\ p.error_buffer_size > 0
                     THEN ErrorText(p.current.line, p.current.col, message)
                     ELSE @,
                 !.panic_mode = TRUE]

parser_error(p, message) ==
    LET logged == [p EXCEPT !.calls = Append(@,
                       ErrorText(p.previous.line, p.previous.col, message))]
    IN  IF p.panic_mode THEN logged
        ELSE [logged EXCEPT
                 !.error_buffer =
                     IF p.error_buffer # NULL /\ p.error_buffer_size > 0
                     THEN ErrorText(p.previous.line, p.previous.col, message)
                     ELSE @,
                 !.panic_mode = TRUE]

(***************************************************************************)
(* The parser reads the lexer's tokens strictly in order, and next_token    *)
(* reads and writes the lexer alone.  The calls of next_token on a text are *)
(* therefore recorded once, in order, as a scan: entry k holds the lexer    *)
(* the k-th call found (from), the token it returned (tok) and the lexer it *)
(* left (lx).  The parser's operators take the scan as toks and read from   *)
(* it what next_token(&parser->lexer) returns.                              *)
(***************************************************************************)
lexer_init == [pos |-> 0, line |-> 1, col |-> 1]

\* One call of next_token, as an entry of the scan.
scan_token(inp, lx) ==
    LET entry(r) == [from |-> lx, tok |-> r.tok, lx |-> r.lx]
    IN  entry(next_token(inp, lx))

\* The scan is complete once a call has returned EOF and left the lexer
\* where it found it: every later call does the same.
scan_complete(toks) ==
    /\ toks # <<>>
    /\ toks[Len(toks)].tok.type = "EOF"
    /\ toks[Len(toks)].lx = toks[Len(toks)].from

\* The lexer the next call of next_token finds.
scan_lexer(toks) == IF toks = <<>> THEN lexer_init ELSE toks[Len(toks)].lx

RECURSIVE scan_from(_, _)
scan_from(inp, toks) ==
    IF scan_complete(toks) THEN toks
    ELSE scan_from(inp, Append(toks, scan_token(inp, scan_lexer(toks))))

scan(inp) == scan_from(inp, <<>>)

\* next_token(&parser->lexer) for the lexer lx.
scanned(toks, lx) == toks[CHOOSE k \in 1..Len(toks) : toks[k].from = lx]

RECURSIVE skip_error_tokens(_, _)
skip_error_tokens(toks, p) ==
    LET took(p1, r) == [p1 EXCEPT !.current = r.tok, !.lexer = r.lx]
        again(p1) == took(p1, scanned(toks, p1.lexer))
    IN  IF p.current.type = "ERROR"
        THEN skip_error_tokens(toks, again(parser_error(p, p.current.msg)))
        ELSE p

advance_token(toks, p) ==
    LET took(r) == [p EXCEPT !.previous = p.current,
                             !.current = r.tok,
                             !.lexer = r.lx]
    IN  skip_error_tokens(toks, took(scanned(toks, p.lexer)))

consume_token(toks, p, type, message) ==
    IF p.current.type = type
    THEN [p |-> advance_token(toks, p), ok |-> TRUE]
    ELSE [p |-> IF message # NULL_MESSAGE THEN parser_error(p, message) ELSE p,
          ok |-> FALSE]


(***************************************************************************)
(* Conversions used by parse_value                                         *)
(***************************************************************************)
DigitVal(c) == CHOOSE n \in 0..9 : ToString(n) = c

\* Length of the run of digits of inp that starts at position i.
RECURSIVE DigitRun(_, _)
DigitRun(inp, i) == IF isdigit(At(inp, i)) THEN 1 + DigitRun(inp, i + 1) ELSE 0

\* Decimal value of the n digits of inp that start at position i.
RECURSIVE DigitsValue(_, _, _)
DigitsValue(inp, i, n) ==
    IF n = 0 THEN 0
    ELSE 10 * DigitsValue(inp, i, n - 1) + DigitVal(At(inp, i + n - 1))

\* Number of characters of white space (as isspace) at position i.
RECURSIVE SpaceRun(_, _)
SpaceRun(inp, i) ==
    IF At(inp, i) \in {" ", "\t", "\n", "\r", "\f"}
    THEN 1 + SpaceRun(inp, i + 1)
    ELSE 0

\* strtoll(inp + start, NULL, 10): white space, an optional sign, digits;
\* 0 when there is no digit.  (The literals of the model are far below the
\* range of long long, where strtoll saturates.)
strtoll(inp, start) ==
    LET s0 == start + SpaceRun(inp, start)
        neg == At(inp, s0) = "-"
        s1 == IF At(inp, s0) \in {"-", "+"} THEN s0 + 1 ELSE s0
        n == DigitRun(inp, s1)
        mag == DigitsValue(inp, s1, n)
    IN  IF neg THEN -mag ELSE mag

RECURSIVE Pow10(_)
Pow10(n) == IF n = 0 THEN 1 ELSE 10 * Pow10(n - 1)

\* A double is held as the decimal number m * 10^e in normal form: m is not
\* a multiple of 10, or m = 0 and e = 0.
RECURSIVE Dbl(_, _)
Dbl(m, e) ==
    IF m = 0 THEN [m |-> 0, e |-> 0]
    ELSE IF m % 10 = 0 THEN Dbl(m \div 10, e + 1)
    ELSE [m |-> m, e |-> e]

\* (double)i
IntToDouble(i) == IF i < 0 THEN [Dbl(-i, 0) EXCEPT !.m = -@] ELSE Dbl(i, 0)

\* strtod(inp + start, NULL): sign, digits, '.' digits, and an exponent that
\* counts only when it has at least one digit; 0.0 when the mantissa has no
\* digit.
strtod(inp, start) ==
    LET s0 == start + SpaceRun(inp, start)
        neg == At(inp, s0) = "-"
        s1 == IF At(inp, s0) \in {"-", "+"} THEN s0 + 1 ELSE s0
        ni == DigitRun(inp, s1)
        dot == At(inp, s1 + ni) = "."
        f0 == s1 + ni + 1
        nf == IF dot THEN DigitRun(inp, f0) ELSE 0
        mend == IF dot THEN f0 + nf ELSE s1 + ni
        mant == DigitsValue(inp, s1, ni) * Pow10(nf)
                + (IF dot THEN DigitsValue(inp, f0, nf) ELSE 0)
        hase == At(inp, mend) \in {"e", "E"}
        eneg == At(inp, mend + 1) = "-"
        e1 == IF At(inp, mend + 1) \in {"-", "+"} THEN mend + 2 ELSE mend + 1
        ne == IF hase THEN DigitRun(inp, e1) ELSE 0
        ex == IF ne = 0 THEN 0
              ELSE IF eneg THEN -DigitsValue(inp, e1, ne)
              ELSE DigitsValue(inp, e1, ne)
        d == Dbl(mant, ex - nf)
    IN  IF ni + nf = 0 THEN [m |-> 0, e |-> 0]
        ELSE IF neg THEN [d EXCEPT !.m = -@]
        ELSE d

\* The escape switch of process_string_literal.
Unescape(c) ==
    CASE c = "b" -> <<BS>>
      [] c = "t" -> <<"\t">>
      [] c = "n" -> <<"\n">>
      [] c = "f" -> <<"\f">>
      [] c = "r" -> <<"\r">>
      [] c = "\"" -> <<"\"">>
      [] c = "\\" -> <<"\\">>
      [] OTHER -> <<"\\", c>>

RECURSIVE process_basic(_, _, _)
process_basic(text, i, content_end) ==
    IF i >= content_end THEN <<>>
    ELSE IF At(text, i) = "\\"
    THEN Unescape(At(text, i + 1)) \o process_basic(text, i + 2, content_end)
    ELSE <<At(text, i)>> \o process_basic(text, i + 1, content_end)

\* text is the token text (start[0..len-1]).
process_string_literal(text) ==
    LET len == Len(text)
        quote_char == At(text, 0)
        is_multiline == /\ len > 5
                        /\ At(text, 1) = quote_char
                        /\ At(text, 2) = quote_char
        content_start == IF is_multiline THEN 3 ELSE 1
        content_end == len - (IF is_multiline THEN 3 ELSE 1)
    IN  IF quote_char = "'"
        THEN Slice(text, content_start, content_end - content_start)
        ELSE process_basic(text, content_start, content_end)


(***************************************************************************)
(* Parser                                                                  *)
(***************************************************************************)
TokenText(inp, tok) == Slice(inp, tok.start, tok.len)

RECURSIVE skip_blank_tokens(_, _)
skip_blank_tokens(toks, p) ==
    IF p.current.type \in {"COMMENT", "NEWLINE"}
    THEN skip_blank_tokens(toks, advance_token(toks, p))
    ELSE p

\* The array loop after a comma, with a ']' after the comma let through.
after_comma_lenient(toks, p) ==
    [p |-> skip_blank_tokens(toks, p), ok |-> TRUE]

\* The array loop after a comma: comments and newlines are skipped and a
\* ']' is an error.  Yields the parser and whether the loop goes on.
after_comma(toks, p) ==
    LET check(p3) ==
            IF p3.current.type = "RBRACKET"
            THEN [p |-> parser_error(p3, "Expected ']' to close array."),
                  ok |-> FALSE]
            ELSE [p |-> p3, ok |-> TRUE]
    IN  check(skip_blank_tokens(toks, p))

\* parse_value yields the parser and the value, NULL for no value.
RECURSIVE parse_value(_, _, _)
RECURSIVE array_elements(_, _, _, _)

\* The element loop of the LBRACKET case and the closing consume_token.
array_elements(inp, toks, p, arr) ==
    LET none(q) == [p |-> q, val |-> NULL]
        closed(c, a) ==
            IF c.ok THEN [p |-> c.p, val |-> [type |-> "ARRAY", a |-> a]]
            ELSE none(c.p)
        close(q, a) ==
            closed(consume_token(toks, q, "RBRACKET",
                                 "Expected ']' to close array."), a)
        continue(t, a) ==
            IF ~t.ok THEN none(t.p) ELSE array_elements(inp, toks, t.p, a)
        separated(c, a) ==
            IF ~c.ok THEN none(c.p) ELSE continue(after_comma(toks, c.p), a)
        added(r, a) ==
            IF r.p.current.type = "RBRACKET" THEN close(r.p, a)
            ELSE separated(consume_token(toks, r.p, "COMMA",
                                         "Expected ',' or ']' in array."), a)
        element(r) ==
            IF r.val = NULL THEN none(r.p)
            ELSE added(r, cconfig_array_add_value(arr, r.val))
    IN  IF p.current.type # "RBRACKET" /\ p.current.type # "EOF"
        THEN element(parse_value(inp, toks, p))
        ELSE close(p, arr)

\* parse_value keeping the value tagged None for a token that starts no
\* value.
parse_value_keeps_none(inp, toks, p) ==
    LET tok == p.current
        scalar(v) == [p |-> advance_token(toks, p), val |-> v]
        array(p1) ==
            IF p1.current.type = "RBRACKET"
            THEN [p |-> advance_token(toks, p1),
                  val |-> [type |-> "ARRAY", a |-> cconfig_array_t]]
            ELSE array_elements(inp, toks, p1, cconfig_array_t)
    IN  CASE tok.type = "STRING" ->
               scalar([type |-> "STRING",
                       s |-> process_string_literal(TokenText(inp, tok))])
          [] tok.type = "INTEGER" ->
               scalar([type |-> "INTEGER", i |-> strtoll(inp, tok.start)])
          [] tok.type = "FLOAT" ->
               scalar([type |-> "FLOAT", d |-> strtod(inp, tok.start)])
          [] tok.type = "BOOLEAN" ->
               scalar([type |-> "BOOLEAN",
                       b |-> Slice(inp, tok.start, 4) = <<"t", "r", "u", "e">>])
          [] tok.type = "LBRACKET" -> array(advance_token(toks, p))
          [] OTHER -> scalar([type |-> "NONE"])

parse_value(inp, toks, p) ==
    LET tok == p.current
        scalar(v) == [p |-> advance_token(toks, p), val |-> v]
        array(p1) ==
            IF p1.current.type = "RBRACKET"
            THEN [p |-> advance_token(toks, p1),
                  val |-> [type |-> "ARRAY", a |-> cconfig_array_t]]
            ELSE array_elements(inp, toks, p1, cconfig_array_t)
    IN  CASE tok.type = "STRING" ->
               scalar([type |-> "STRING",
                       s |-> process_string_literal(TokenText(inp, tok))])
          [] tok.type = "INTEGER" ->
               scalar([type |-> "INTEGER", i |-> strtoll(inp, tok.start)])
          [] tok.type = "FLOAT" ->
               scalar([type |-> "FLOAT", d |-> strtod(inp, tok.start)])
          [] tok.type = "BOOLEAN" ->
               scalar([type |-> "BOOLEAN",
                       b |-> Slice(inp, tok.start, 4) = <<"t", "r", "u", "e">>])
          [] tok.type = "LBRACKET" -> array(advance_token(toks, p))
          [] OTHER -> [p |-> p, val |-> NULL]

\* parse_key_value yields the parser, the root table and whether a pair was
\* added (the non-NULL return); table is the path of the table being filled.
RECURSIVE key_value_loop(_, _, _, _, _)
key_value_loop(inp, toks, p, root, table) ==
    LET none(q) == [p |-> q, root |-> root, pair |-> FALSE]
        key == TokenText(inp, p.current)
        added(v) ==
            IF v.val = NULL THEN none(v.p)
            ELSE [p |-> v.p,
                  root |-> SetTableAt(root, table,
                      cconfig_table_add_pair(TableAt(root, table),
                                             [key |-> key, value |-> v.val])),
                  pair |-> TRUE]
        assigned(c) ==
            IF ~c.ok THEN none(c.p) ELSE added(parse_value(inp, toks, c.p))
        dotted(p1, f) ==
            IF f.table = NULL_TABLE
            THEN none(parser_error(p1,
                                   "Failed to create table for dotted key."))
            ELSE key_value_loop(inp, toks, advance_token(toks, p1),
                                f.root, f.table)
        after_key(p1) ==
            IF p1.current.type = "DOT"
            THEN dotted(p1, find_or_create_table(root, table, key))
            ELSE IF p1.current.type = "EQUAL"
            THEN assigned(consume_token(toks, p1, "EQUAL",
                                        "Expected '=' after key."))
            ELSE key_value_loop(inp, toks, p1, root, table)
    IN  IF p.current.type # "IDENT" THEN none(p)
        ELSE after_key(advance_token(toks, p))

parse_key_value(inp, toks, p, root) ==
    key_value_loop(inp, toks, p, root, p.current_table)

\* find_or_create_array_of_tables taking a key bound to a value that is not
\* an Array as a key that is not bound.
find_or_create_array_of_tables_unchecked(p, root, parent, key) ==
    LET tbl == TableAt(root, parent)
        i == FirstMatch(tbl, key)
        pair == [key |-> key,
                 value |-> [type |-> "ARRAY", a |-> cconfig_array_t]]
    IN  IF i # 0 /\ tbl[i].value.type = "ARRAY"
        THEN [p |-> p, root |-> root,
              array |-> [table |-> parent, pair |-> i]]
        ELSE [p |-> p,
              root |-> SetTableAt(root, parent,
                                  cconfig_table_add_pair(tbl, pair)),
              array |-> [table |-> parent, pair |-> Len(tbl) + 1]]

\* Yields the parser, the root and the array found or created: the path of
\* its parent table and the index of its pair, or NULL.
find_or_create_array_of_tables(p, root, parent, key) ==
    LET tbl == TableAt(root, parent)
        i == FirstMatch(tbl, key)
        pair == [key |-> key,
                 value |-> [type |-> "ARRAY", a |-> cconfig_array_t]]
    IN  IF i # 0
        THEN IF tbl[i].value.type = "ARRAY"
             THEN [p |-> p, root |-> root,
                   array |-> [table |-> parent, pair |-> i]]
             ELSE [p |-> parser_error(p,
                             "Key redefined as an array of tables."),
                   root |-> root, array |-> NULL]
        ELSE [p |-> p,
              root |-> SetTableAt(root, parent,
                                  cconfig_table_add_pair(tbl, pair)),
              array |-> [table |-> parent, pair |-> Len(tbl) + 1]]


(***************************************************************************)
(* cconfig_parse: the statements of the top-level loop.  Each yields the   *)
(* parser, the root table and whether the function returned NULL from      *)
(* inside the loop (after cconfig_free(doc)).                              *)
(***************************************************************************)
\* The key loop of an array-of-tables header.
RECURSIVE aot_keys(_, _, _, _, _)
aot_keys(inp, toks, p, root, parent_table) ==
    LET key == TokenText(inp, p.current)
        last(g) ==
            [p |-> g.p, root |-> g.root, array |-> g.array,
             returned |-> FALSE]
        dotted(p1, f) ==
            IF f.table = NULL_TABLE
            THEN [p |-> parser_error(p1, "Failed to create table path."),
                  root |-> root, array |-> NULL, returned |-> TRUE]
            ELSE aot_keys(inp, toks, advance_token(toks, p1), f.root, f.table)
        after_key(p1) ==
            IF p1.current.type = "DOT"
            THEN dotted(p1, find_or_create_table(root, parent_table, key))
            ELSE last(find_or_create_array_of_tables(p1, root, parent_table,
                                                     key))
    IN  IF p.current.type # "IDENT"
        THEN [p |-> p, root |-> root, array |-> NULL, returned |-> FALSE]
        ELSE after_key(advance_token(toks, p))

\* The new table of an array-of-tables header found, not appended: every
\* header after the first reuses the last table of the array.
append_table_reuses_last(p, root, array) ==
    LET tbl == TableAt(root, array.table)
        arr == tbl[array.pair].value.a
        new_table_value == [type |-> "TABLE", t |-> cconfig_table_t]
    IN  IF arr # <<>> /\ arr[Len(arr)].type = "TABLE"
        THEN [p |-> [p EXCEPT !.current_table =
                         Append(array.table, <<array.pair, Len(arr)>>)],
              root |-> root]
        ELSE [p |-> [p EXCEPT !.current_table =
                         Append(array.table, <<array.pair, Len(arr) + 1>>)],
              root |-> SetTableAt(root, array.table,
                          [tbl EXCEPT ![array.pair].value.a =
                               cconfig_array_add_value(arr, new_table_value)])]

\* The new table of an array-of-tables header put in front of the elements
\* of the array.
append_table_in_front(p, root, array) ==
    LET tbl == TableAt(root, array.table)
        arr == tbl[array.pair].value.a
        new_table_value == [type |-> "TABLE", t |-> cconfig_table_t]
    IN  [p |-> [p EXCEPT !.current_table =
                    Append(array.table, <<array.pair, 1>>)],
         root |-> SetTableAt(root, array.table,
                     [tbl EXCEPT ![array.pair].value.a =
                          <<new_table_value>> \o arr])]

\* The new table of an array-of-tables header: appended to the array and
\* made the current table.
append_table(p, root, array) ==
    LET tbl == TableAt(root, array.table)
        arr == tbl[array.pair].value.a
        new_table_value == [type |-> "TABLE", t |-> cconfig_table_t]
    IN  [p |-> [p EXCEPT !.current_table =
                    Append(array.table, <<array.pair, Len(arr) + 1>>)],
         root |-> SetTableAt(root, array.table,
                     [tbl EXCEPT ![array.pair].value.a =
                          cconfig_array_add_value(arr, new_table_value)])]

array_of_tables_header(inp, toks, p, root) ==
    LET msg == "Expected ']]' to close array of tables."
        second(c2, root1) == [p |-> c2.p, root |-> root1, returned |-> ~c2.ok]
        first(c1, root1) ==
            IF ~c1.ok THEN [p |-> c1.p, root |-> root1, returned |-> TRUE]
            ELSE second(consume_token(toks, c1.p, "RBRACKET", msg), root1)
        appended(t) ==
            first(consume_token(toks, t.p, "RBRACKET", msg), t.root)
        after_keys(k) ==
            IF k.returned THEN [p |-> k.p, root |-> k.root, returned |-> TRUE]
            ELSE IF k.array = NULL
            THEN [p |-> parser_error(k.p,
                            "Invalid array of tables declaration."),
                  root |-> k.root, returned |-> TRUE]
            ELSE appended(append_table(k.p, k.root, k.array))
    IN  after_keys(aot_keys(inp, toks, p, root, <<>>))

\* The key loop of a standard table header.
RECURSIVE table_keys(_, _, _, _, _)
table_keys(inp, toks, p, root, table) ==
    LET after_key(f, p1) ==
            IF f.table = NULL_TABLE
            THEN [p |-> parser_error(p, "Failed to create or find table."),
                  root |-> root, table |-> NULL_TABLE, returned |-> TRUE]
            ELSE IF p1.current.type = "DOT"
            THEN table_keys(inp, toks, advance_token(toks, p1),
                            f.root, f.table)
            ELSE [p |-> p1, root |-> f.root, table |-> f.table,
                  returned |-> FALSE]
    IN  IF p.current.type # "IDENT"
        THEN [p |-> p, root |-> root, table |-> table, returned |-> FALSE]
        ELSE after_key(find_or_create_table(root, table,
                                            TokenText(inp, p.current)),
                       advance_token(toks, p))

\* The standard header resolved from the table that was current.
standard_table_header_from_current(inp, toks, p, root) ==
    LET closed(c, k) == [p |-> c.p, root |-> k.root, returned |-> ~c.ok]
        after_keys(k) ==
            IF k.returned THEN [p |-> k.p, root |-> k.root, returned |-> TRUE]
            ELSE closed(consume_token(toks,
                                      [k.p EXCEPT !.current_table = k.table],
                                      "RBRACKET",
                                      "Expected ']' after table name."), k)
    IN  after_keys(table_keys(inp, toks, p, root, p.current_table))

standard_table_header(inp, toks, p, root) ==
    LET closed(c, k) == [p |-> c.p, root |-> k.root, returned |-> ~c.ok]
        after_keys(k) ==
            IF k.returned THEN [p |-> k.p, root |-> k.root, returned |-> TRUE]
            ELSE closed(consume_token(toks,
                                      [k.p EXCEPT !.current_table = k.table],
                                      "RBRACKET",
                                      "Expected ']' after table name."), k)
    IN  after_keys(table_keys(inp, toks, p, root, <<>>))

\* The branch of the loop taken when the current token is '['.
header_statement(inp, toks, p, root) ==
    LET branch(is_array_of_tables) ==
            IF is_array_of_tables.ok
            THEN array_of_tables_header(inp, toks, is_array_of_tables.p, root)
            ELSE standard_table_header(inp, toks, is_array_of_tables.p, root)
    IN  branch(consume_token(toks, advance_token(toks, p), "LBRACKET",
                             NULL_MESSAGE))

\* The last branch of the loop without the advance_token after an error.
key_value_statement_stays(inp, toks, p, root) ==
    LET resume(r, message) ==
            [p |-> parser_error(r.p, message),
             root |-> r.root, returned |-> FALSE]
        after(r) ==
            IF r.pair
            THEN IF r.p.current.type \notin {"NEWLINE", "EOF", "COMMENT"}
                 THEN resume(r, "Unexpected token after key-value pair.")
                 ELSE [p |-> r.p, root |-> r.root, returned |-> FALSE]
            ELSE resume(r,
                  "Invalid syntax. Expected key-value pair or table definition.")
    IN  after(parse_key_value(inp, toks, p, root))

\* The last branch of the loop with the cursor left in the table of the
\* first key of a dotted key.
key_value_statement_moves_cursor(inp, toks, p, root) ==
    LET resume(r, message) ==
            [p |-> advance_token(toks, parser_error(r.p, message)),
             root |-> r.root, returned |-> FALSE]
        dotted == /\ p.current.type = "IDENT"
                  /\ advance_token(toks, p).current.type = "DOT"
        moved(r) ==
            LET i == FirstMatch(TableAt(r.root, p.current_table),
                                TokenText(inp, p.current))
            IN  IF dotted /\ i # 0
                THEN [r.p EXCEPT !.current_table = Append(@, <<i, 0>>)]
                ELSE r.p
        after(r) ==
            IF r.pair
            THEN IF r.p.current.type \notin {"NEWLINE", "EOF", "COMMENT"}
                 THEN resume(r, "Unexpected token after key-value pair.")
                 ELSE [p |-> moved(r), root |-> r.root, returned |-> FALSE]
            ELSE resume(r,
                  "Invalid syntax. Expected key-value pair or table definition.")
    IN  after(parse_key_value(inp, toks, p, root))

\* The last branch of the loop: parse_key_value and the check after it.
key_value_statement(inp, toks, p, root) ==
    LET resume(r, message) ==
            [p |-> advance_token(toks, parser_error(r.p, message)),
             root |-> r.root, returned |-> FALSE]
        after(r) ==
            IF r.pair
            THEN IF r.p.current.type \notin {"NEWLINE", "EOF", "COMMENT"}
                 THEN resume(r, "Unexpected token after key-value pair.")
                 ELSE [p |-> r.p, root |-> r.root, returned |-> FALSE]
            ELSE resume(r,
                  "Invalid syntax. Expected key-value pair or table definition.")
    IN  after(parse_key_value(inp, toks, p, root))

\* One iteration of the loop.
loop_statement(inp, toks, p, root) ==
    IF p.current.type \in {"NEWLINE", "COMMENT"}
    THEN [p |-> advance_token(toks, p), root |-> root, returned |-> FALSE]
    ELSE IF p.current.type = "LBRACKET"
    THEN header_statement(inp, toks, p, root)
    ELSE key_value_statement(inp, toks, p, root)

\* A zero-initialized token.
ZeroToken ==
    [type |-> "EOF", start |-> 0, len |-> 0, line |-> 0, col |-> 0, msg |-> ""]

\* The parser struct as its initializer leaves it.  calls is the history of
\* the calls of parser_error (position and message of each), kept for the
\* properties about the first error; the code has no such field.
parser_init(error_buffer, error_buffer_size) ==
    [lexer |-> lexer_init,
     current |-> ZeroToken,
     previous |-> ZeroToken,
     error_buffer |-> error_buffer,
     error_buffer_size |-> error_buffer_size,
     panic_mode |-> FALSE,
     current_table |-> <<>>,
     calls |-> <<>>]

\* The return without the panic_mode test.
parse_return_unchecked(p, root) == [root |-> root]

\* What cconfig_parse returns once the loop is left at end of input.
parse_return(p, root) == IF p.panic_mode THEN NULL ELSE [root |-> root]

RECURSIVE parse_loop(_, _, _, _)
parse_loop(inp, toks, p, root) ==
    LET next(r) ==
            IF r.returned THEN [doc |-> NULL, parser |-> r.p]
            ELSE parse_loop(inp, toks, r.p, r.root)
    IN  IF p.current.type = "EOF"
        THEN [doc |-> parse_return(p, root), parser |-> p]
        ELSE next(loop_statement(inp, toks, p, root))

\* cconfig_parse over the scan of inp.
parse_tokens(inp, toks, error_buffer, error_buffer_size) ==
    parse_loop(inp, toks,
               advance_token(toks, parser_init(error_buffer,
                                               error_buffer_size)),
               cconfig_table_t)

\* cconfig_parse as a function of its arguments: the returned document (or
\* NULL) and the final parser.
cconfig_parse(inp, error_buffer, error_buffer_size) ==
    parse_tokens(inp, scan(inp), error_buffer, error_buffer_size)


(***************************************************************************)
(* Path resolver and typed accessors                                       *)
(***************************************************************************)
\* The scan of the pairs, keeping the last match.
cconfig_get_value_from_table_last(table, key) ==
    LET hits == {i \in 1..Len(table) : table[i].key = key}
    IN  IF hits = {} THEN NULL
        ELSE table[CHOOSE i \in hits : \A k \in hits : i >= k].value

cconfig_get_value_from_table(table, key) ==
    LET i == FirstMatch(table, key)
    IN  IF i = 0 THEN NULL ELSE table[i].value

\* strpbrk(path + p, ".["): the position of the first '.' or '[' at or after
\* p, -1 for a NULL result.
strpbrk_dot_bracket(path, p) ==
    LET hits == {k \in p..(Len(path) - 1) : At(path, k) \in {".", "["}}
    IN  IF hits = {} THEN -1
        ELSE CHOOSE k \in hits : \A j \in hits : k <= j

\* strtol(path + p, &end, 10): the value and end; end = p when no digits.
strtol(path, p) ==
    LET s0 == p + SpaceRun(path, p)
        neg == At(path, s0) = "-"
        s1 == IF At(path, s0) \in {"-", "+"} THEN s0 + 1 ELSE s0
        n == DigitRun(path, s1)
        mag == DigitsValue(path, s1, n)
    IN  IF n = 0 THEN [value |-> 0, end |-> p]
        ELSE [value |-> IF neg THEN -mag ELSE mag, end |-> s1 + n]

KEY_BUFFER_SIZE == 256

\* The bounds check taken for a 1-based index.
array_element_one_based(arr, index) ==
    IF index < 1 \/ index > Len(arr) THEN NULL ELSE arr[index]

\* arr->values[index] behind the bounds check, NULL when out of bounds.
array_element(arr, index) ==
    IF index < 0 \/ index >= Len(arr) THEN NULL ELSE arr[index + 1]

\* The loop with a buffer that holds KEY_BUFFER_SIZE characters beside the
\* terminator.
RECURSIVE get_value_loop_roomy(_, _, _)
get_value_loop_roomy(key_path, p, current_value) ==
    LET skip_dot(q) == IF q # -1 /\ At(key_path, q) = "." THEN q + 1 ELSE q
        n == strtol(key_path, p + 1)
        index == n.value
        key_end == strpbrk_dot_bracket(key_path, p)
        key_len == IF key_end # -1 THEN key_end - p ELSE Len(key_path) - p
        key == Slice(key_path, p, key_len)
    IN  IF p = -1 \/ At(key_path, p) = NUL THEN current_value
        ELSE IF current_value = NULL THEN NULL
        ELSE IF At(key_path, p) = "["
        THEN IF current_value.type # "ARRAY" THEN NULL
             ELSE IF p + 1 = n.end \/ At(key_path, n.end) # "]" THEN NULL
             ELSE get_value_loop_roomy(key_path, skip_dot(n.end + 1),
                                       array_element(current_value.a, index))
        ELSE IF current_value.type # "TABLE" THEN NULL
             ELSE IF key_len > KEY_BUFFER_SIZE THEN NULL
             ELSE get_value_loop_roomy(key_path, skip_dot(key_end),
                      cconfig_get_value_from_table(current_value.t, key))

\* The loop of cconfig_get_value; p = -1 stands for p = NULL.
RECURSIVE get_value_loop(_, _, _)
get_value_loop(key_path, p, current_value) ==
    LET skip_dot(q) == IF q # -1 /\ At(key_path, q) = "." THEN q + 1 ELSE q
        n == strtol(key_path, p + 1)
        index == n.value
        key_end == strpbrk_dot_bracket(key_path, p)
        key_len == IF key_end # -1 THEN key_end - p ELSE Len(key_path) - p
        key == Slice(key_path, p, key_len)
    IN  IF p = -1 \/ At(key_path, p) = NUL THEN current_value
        ELSE IF current_value = NULL THEN NULL
        ELSE IF At(key_path, p) = "["
        THEN IF current_value.type # "ARRAY" THEN NULL
             ELSE IF p + 1 = n.end \/ At(key_path, n.end) # "]" THEN NULL
             ELSE get_value_loop(key_path, skip_dot(n.end + 1),
                                 array_element(current_value.a, index))
        ELSE IF current_value.type # "TABLE" THEN NULL
             ELSE IF key_len >= KEY_BUFFER_SIZE THEN NULL
             ELSE get_value_loop(key_path, skip_dot(key_end),
                      cconfig_get_value_from_table(current_value.t, key))

cconfig_get_value(doc, key_path) ==
    IF doc = NULL THEN NULL
    ELSE get_value_loop(key_path, 0, [type |-> "TABLE", t |-> doc.root])

\* A pointer to a table or an array is modelled by the value that holds it.
cconfig_get_table(doc, key_path) ==
    LET value == cconfig_get_value(doc, key_path)
    IN  IF value # NULL /\ value.type = "TABLE" THEN value ELSE NULL

cconfig_get_array(doc, key_path) ==
    LET value == cconfig_get_value(doc, key_path)
    IN  IF value # NULL /\ value.type = "ARRAY" THEN value ELSE NULL

cconfig_get_string(doc, key_path, default_val) ==
    LET value == cconfig_get_value(doc, key_path)
    IN  IF value # NULL /\ value.type = "STRING" THEN value.s ELSE default_val

cconfig_get_int(doc, key_path, default_val) ==
    LET value == cconfig_get_value(doc, key_path)
    IN  IF value # NULL /\ value.type = "INTEGER" THEN value.i ELSE default_val

\* cconfig_get_double without the promotion of an Integer.
cconfig_get_double_no_promotion(doc, key_path, default_val) ==
    LET value == cconfig_get_value(doc, key_path)
    IN  IF value # NULL /\ value.type = "FLOAT" THEN value.d ELSE default_val

cconfig_get_double(doc, key_path, default_val) ==
    LET value == cconfig_get_value(doc, key_path)
    IN  IF value # NULL /\ value.type = "FLOAT" THEN value.d
        ELSE IF value # NULL /\ value.type = "INTEGER"
        THEN IntToDouble(value.i)
        ELSE default_val

cconfig_get_bool(doc, key_path, default_val) ==
    LET value == cconfig_get_value(doc, key_path)
    IN  IF value # NULL /\ value.type = "BOOLEAN" THEN value.b ELSE default_val


(***************************************************************************)
(* Serializer                                                              *)
(***************************************************************************)
RECURSIVE NatChars(_)
NatChars(n) ==
    IF n < 10 THEN <<ToString(n)>>
    ELSE NatChars(n \div 10) \o <<ToString(n % 10)>>

\* "%lld"
format_lld(i) == IF i < 0 THEN <<"-">> \o NatChars(-i) ELSE NatChars(i)

Zeros(n) == [k \in 1..n |-> "0"]

\* "%g" of the double m * 10^e: six significant digits, trailing zeros
\* removed, exponent notation when the decimal exponent is below -4 or at
\* least 6.
format_g(d) ==
    LET neg == d.m < 0
        mag == IF neg THEN -d.m ELSE d.m
        n0 == Len(NatChars(mag))
        cut == IF n0 > 6 THEN n0 - 6 ELSE 0
        rounded == (mag + (IF cut > 0 THEN 5 * Pow10(cut - 1) ELSE 0))
                       \div Pow10(cut)
        r == Dbl(rounded, d.e + cut)
        ds == NatChars(r.m)
        nd == Len(ds)
        X == nd - 1 + r.e
        absX == IF X < 0 THEN -X ELSE X
        body ==
            IF X < -4 \/ X >= 6
            THEN <<ds[1]>>
                 \o (IF nd > 1 THEN <<".">> \o SubSeq(ds, 2, nd) ELSE <<>>)
                 \o <<"e", IF X < 0 THEN "-" ELSE "+">>
                 \o (IF absX < 10 THEN <<"0">> ELSE <<>>) \o NatChars(absX)
            ELSE IF X < 0 THEN <<"0", ".">> \o Zeros(-X - 1) \o ds
            ELSE IF X >= nd - 1 THEN ds \o Zeros(X - (nd - 1))
            ELSE SubSeq(ds, 1, X + 1) \o <<".">> \o SubSeq(ds, X + 2, nd)
    IN  IF d.m = 0 THEN <<"0">>
        ELSE (IF neg THEN <<"-">> ELSE <<>>) \o body

\* The characters of a String value between the quotes.
RECURSIVE escape_string(_)
escape_string(str) ==
    IF str = <<>> THEN <<>>
    ELSE (IF Head(str) = "\"" \/ Head(str) = "\\" THEN <<"\\">> ELSE <<>>)
         \o <<Head(str)>> \o escape_string(Tail(str))

RECURSIVE cconfig_serialize_value(_)
RECURSIVE serialize_elements(_, _)

\* The element loop of the Array case, from element i (1-based).
serialize_elements(arr, i) ==
    IF i > Len(arr) THEN <<>>
    ELSE cconfig_serialize_value(arr[i])
         \o (IF i < Len(arr) THEN <<",", " ">> ELSE <<>>)
         \o serialize_elements(arr, i + 1)

cconfig_serialize_value(value) ==
    CASE value.type = "STRING" -> <<"\"">> \o escape_string(value.s) \o <<"\"">>
      [] value.type = "INTEGER" -> format_lld(value.i)
      [] value.type = "FLOAT" -> format_g(value.d)
      [] value.type = "BOOLEAN" ->
           IF value.b THEN <<"t", "r", "u", "e">>
           ELSE <<"f", "a", "l", "s", "e">>
      [] value.type = "ARRAY" ->
           <<"[", " ">> \o serialize_elements(value.a, 1) \o <<" ", "]">>
      [] OTHER -> <<>>

PATH_BUFFER_SIZE == 256

\* snprintf(new_path, sizeof(new_path), "%s%s%s", ...)
new_path_of(table_path, key) ==
    LET full == (IF table_path # NULL_STRING THEN table_path ELSE <<>>)
                \o (IF table_path # NULL_STRING THEN <<".">> ELSE <<>>)
                \o key
    IN  IF Len(full) > PATH_BUFFER_SIZE - 1
        THEN SubSeq(full, 1, PATH_BUFFER_SIZE - 1)
        ELSE full

RECURSIVE cconfig_serialize_table_contents(_, _)
RECURSIVE serialize_simple_pairs(_, _, _, _)
RECURSIVE serialize_sub_tables(_, _, _)
RECURSIVE serialize_array_of_tables(_, _, _)

\* The first loop, from pair i, and the blank line after it.
serialize_simple_pairs(table, table_path, i, wrote_header) ==
    LET pair == table[i]
        simple == pair.value.type # "TABLE" /\ pair.value.type # "ARRAY"
        header == ~wrote_header /\ table_path # NULL_STRING
                  /\ table_path # <<>>
    IN  IF i > Len(table) THEN (IF wrote_header THEN <<"\n">> ELSE <<>>)
        ELSE IF simple
        THEN (IF header THEN <<"[">> \o table_path \o <<"]", "\n">> ELSE <<>>)
             \o pair.key \o <<" ", "=", " ">>
             \o cconfig_serialize_value(pair.value) \o <<"\n">>
             \o serialize_simple_pairs(table, table_path, i + 1,
                                       wrote_header \/ header)
        ELSE serialize_simple_pairs(table, table_path, i + 1, wrote_header)

\* The loop over the elements of an array of tables, from element j.
serialize_array_of_tables(arr, new_path, j) ==
    IF j > Len(arr) THEN <<>>
    ELSE <<"[", "[">> \o new_path \o <<"]", "]", "\n">>
         \o cconfig_serialize_table_contents(arr[j].t, NULL_STRING)
         \o <<"\n">>
         \o serialize_array_of_tables(arr, new_path, j + 1)

\* The second loop, from pair i.
serialize_sub_tables(table, table_path, i) ==
    LET pair == table[i]
        new_path == new_path_of(table_path, pair.key)
    IN  IF i > Len(table) THEN <<>>
        ELSE (IF pair.value.type = "TABLE"
              THEN cconfig_serialize_table_contents(pair.value.t, new_path)
              ELSE IF /\ pair.value.type = "ARRAY"
                      /\ Len(pair.value.a) > 0
                      /\ pair.value.a[1].type = "TABLE"
              THEN serialize_array_of_tables(pair.value.a, new_path, 1)
              ELSE <<>>)
             \o serialize_sub_tables(table, table_path, i + 1)

\* cconfig_serialize_table_contents with the two loops in the other order.
cconfig_serialize_table_contents_tables_first(table, table_path) ==
    serialize_sub_tables(table, table_path, 1)
    \o serialize_simple_pairs(table, table_path, 1, FALSE)

cconfig_serialize_table_contents(table, table_path) ==
    serialize_simple_pairs(table, table_path, 1, FALSE)
    \o serialize_sub_tables(table, table_path, 1)

cconfig_serialize(doc) ==
    IF doc = NULL THEN NULL_STRING
    ELSE cconfig_serialize_table_contents(doc.root, <<>>)


(***************************************************************************)
(* INI parser                                                              *)
(***************************************************************************)
\* The vertical tab, which has no escape in a string of this module.
VT == "VT"

isspace(c) == c \in {" ", "\t", "\n", "\r", "\f", VT}

\* The number of whitespace characters str starts with.
RECURSIVE leading_space(_)
leading_space(str) ==
    IF str # <<>> /\ isspace(str[1]) THEN 1 + leading_space(Tail(str)) ELSE 0

\* The index end stops at: the loop "while (end > str && isspace(*end))"
\* run down from the last character of str (1-based, str not empty).
RECURSIVE trailing_end(_, _)
trailing_end(str, end) ==
    IF end > 1 /\ isspace(str[end]) THEN trailing_end(str, end - 1) ELSE end

\* trim_whitespace(str): ret is the string at the returned pointer, buf the
\* string left at str itself, where only the new terminator was written.
trim_whitespace(str) ==
    LET lead == leading_space(str)
        rest == SubSeq(str, lead + 1, Len(str))
        kept == SubSeq(rest, 1, trailing_end(rest, Len(rest)))
    IN  IF rest = <<>> THEN [ret |-> <<>>, buf |-> str]
        ELSE [ret |-> kept, buf |-> SubSeq(str, 1, lead) \o kept]

\* strchr(str, c): the 1-based index of the first c in str, 0 for NULL.
strchr(str, c) ==
    LET hits == {i \in 1..Len(str) : str[i] = c}
    IN  IF hits = {} THEN 0 ELSE CHOOSE i \in hits : \A k \in hits : i <= k

\* strtok(_, "\n\r") resumed at the 0-based position next of buffer: the
\* token, NULL_STRING when none is left, and the position to resume at.
RECURSIVE strtok_skip(_, _)
strtok_skip(buffer, next) ==
    IF At(buffer, next) \in {"\n", "\r"} THEN strtok_skip(buffer, next + 1)
    ELSE next

RECURSIVE strtok_end(_, _)
strtok_end(buffer, pos) ==
    IF At(buffer, pos) \in {"\n", "\r", NUL} THEN pos
    ELSE strtok_end(buffer, pos + 1)

strtok(buffer, next) ==
    LET start == strtok_skip(buffer, next)
        end == strtok_end(buffer, start)
    IN  IF At(buffer, start) = NUL
        THEN [line |-> NULL_STRING, next |-> start]
        ELSE [line |-> Slice(buffer, start, end - start),
              next |-> IF At(buffer, end) = NUL THEN end ELSE end + 1]

SECTION_BUFFER_SIZE == 128

\* strncpy(section, src, sizeof(section) - 1) and the terminator after it.
strncpy_section(src) ==
    SubSeq(src, 1, IF Len(src) < SECTION_BUFFER_SIZE - 1 THEN Len(src)
                   ELSE SECTION_BUFFER_SIZE - 1)

\* The section-line branch: the section buffer it leaves.
section_line(trimmed_line, section) ==
    LET end == strchr(trimmed_line, "]")
    IN  IF end # 0
        THEN trim_whitespace(
                 strncpy_section(SubSeq(trimmed_line, 2, end - 1))).buf
        ELSE section

\* The key-value branch with the section of the call's start.
key_value_line_global(trimmed_line, section) ==
    LET eq == strchr(trimmed_line, "=")
    IN  [section |-> <<>>,
         key |-> trim_whitespace(SubSeq(trimmed_line, 1, eq - 1)).ret,
         value |-> trim_whitespace(
                       SubSeq(trimmed_line, eq + 1, Len(trimmed_line))).ret]

\* The key-value branch: the arguments of the handler.
key_value_line(trimmed_line, section) ==
    LET eq == strchr(trimmed_line, "=")
    IN  [section |-> section,
         key |-> trim_whitespace(SubSeq(trimmed_line, 1, eq - 1)).ret,
         value |-> trim_whitespace(
                       SubSeq(trimmed_line, eq + 1, Len(trimmed_line))).ret]

\* The branch the loop body takes for a line.
line_kind(trimmed_line) ==
    IF trimmed_line # <<>> /\ trimmed_line[1] \in {"#", ";"} THEN "comment"
    ELSE IF trimmed_line # <<>> /\ trimmed_line[1] = "[" THEN "section"
    ELSE IF strchr(trimmed_line, "=") # 0 THEN "key_value"
    ELSE "other"

(***************************************************************************)
(* The state machine: the calls of next_token on input, then one call of   *)
(* cconfig_parse run statement by statement, followed by calls of the      *)
(* accessors, of cconfig_serialize and of cconfig_parse on the serialized  *)
(* text.                                                                   *)
(***************************************************************************)
VARIABLES
    input,      \* the text given to cconfig_parse
    tokens,     \* the scan of input so far
    parser,     \* the cconfig_parser_t of the call
    doc,        \* the document under construction, NULL when not allocated
    pc,         \* "scan", "loop" or "done": where the call stands
    result,     \* the value returned by cconfig_parse once pc = "done"
    call,       \* the last accessor call and what it returned, NULL if none
    output,     \* the text returned by cconfig_serialize, NULL_STRING if none
    reparsed,   \* the outcome of parsing output, NULL if not parsed
    ini,        \* the call of cconfig_ini_parse, NULL if none
    heap        \* the allocations of a call of cconfig_parse, NULL if not
                \* followed

vars ==
    <<input, tokens, parser, doc, pc, result, call, output, reparsed, ini,
      heap>>

\* What the caller's buffer holds before the call.
CallerText == [caller |-> TRUE]

ERROR_BUFFER_SIZE == 256

\* The caller's choices of (error_buffer, error_buffer_size).
Sinks ==
    {<<NULL, 0>>, <<NULL, ERROR_BUFFER_SIZE>>, <<CallerText, 0>>,
     <<CallerText, ERROR_BUFFER_SIZE>>}

\* The call the test programs make: a buffer of 256 bytes.
Sink == {<<CallerText, ERROR_BUFFER_SIZE>>}

InitWith(inputs, sinks) ==
    /\ input \in inputs
    /\ tokens = <<>>
    /\ \E sink \in sinks : parser = parser_init(sink[1], sink[2])
    /\ doc = NULL
    /\ pc = "scan"
    /\ result = NULL
    /\ call = NULL
    /\ output = NULL_STRING
    /\ reparsed = NULL
    /\ ini = NULL
    /\ heap = NULL

\* One call of next_token.
NextToken ==
    /\ pc = "scan"
    /\ ~scan_complete(tokens)
    /\ tokens' = Append(tokens, scan_token(input, scan_lexer(tokens)))
    /\ UNCHANGED <<input, parser, doc, pc, result, call, output, reparsed,
                 ini, heap>>

\* cconfig_parse up to the loop: the first token and the empty document.
ParseBegin ==
    /\ pc = "scan"
    /\ scan_complete(tokens)
    /\ parser' = advance_token(tokens, parser)
    /\ doc' = [root |-> cconfig_table_t]
    /\ pc' = "loop"
    /\ UNCHANGED <<input, tokens, result, call, output, reparsed, ini, heap>>

\* One iteration of the loop; an iteration that returns NULL frees doc.
Statement(r) ==
    /\ parser' = r.p
    /\ doc' = IF r.returned THEN NULL ELSE [root |-> r.root]
    /\ pc' = IF r.returned THEN "done" ELSE "loop"
    /\ UNCHANGED <<input, tokens, result, call, output, reparsed, ini, heap>>

SkipBlank ==
    /\ pc = "loop"
    /\ parser.current.type \in {"NEWLINE", "COMMENT"}
    /\ Statement(loop_statement(input, tokens, parser, doc.root))

TableHeader ==
    /\ pc = "loop"
    /\ parser.current.type = "LBRACKET"
    /\ Statement(loop_statement(input, tokens, parser, doc.root))

KeyValue ==
    /\ pc = "loop"
    /\ parser.current.type \notin {"EOF", "NEWLINE", "COMMENT", "LBRACKET"}
    /\ Statement(loop_statement(input, tokens, parser, doc.root))

\* The end of the loop: the document, or NULL after freeing it.
ParseEnd ==
    /\ pc = "loop"
    /\ parser.current.type = "EOF"
    /\ result' = parse_return(parser, doc.root)
    /\ doc' = IF parser.panic_mode THEN NULL ELSE doc
    /\ pc' = "done"
    /\ UNCHANGED <<input, tokens, parser, call, output, reparsed, ini, heap>>

Accessors ==
    {"get_value", "get_table", "get_array", "get_string", "get_int",
     "get_double", "get_bool"}

\* The default values the caller passes to the accessors that take one.
Defaults(fn) ==
    CASE fn = "get_string" -> {<<"D", "E", "F">>}
      [] fn = "get_int" -> {-7, 0}
      [] fn = "get_double" -> {[m |-> -75, e |-> -1]}
      [] fn = "get_bool" -> {TRUE, FALSE}
      [] OTHER -> {NULL}

Accessor(fn, d, key_path, default_val) ==
    CASE fn = "get_value" -> cconfig_get_value(d, key_path)
      [] fn = "get_table" -> cconfig_get_table(d, key_path)
      [] fn = "get_array" -> cconfig_get_array(d, key_path)
      [] fn = "get_string" -> cconfig_get_string(d, key_path, default_val)
      [] fn = "get_int" -> cconfig_get_int(d, key_path, default_val)
      [] fn = "get_double" -> cconfig_get_double(d, key_path, default_val)
      [] fn = "get_bool" -> cconfig_get_bool(d, key_path, default_val)

\* A call of an accessor on the returned document (NULL after a failure).
\* The accessors write nothing, so a later call finds what the first found:
\* a behaviour makes one call.
Get(paths) ==
    /\ pc = "done"
    /\ call = NULL
    /\ \E fn \in Accessors, key_path \in paths :
         \E default_val \in Defaults(fn) :
            call' = [fn |-> fn, key_path |-> key_path,
                     default_val |-> default_val,
                     ret |-> Accessor(fn, result, key_path, default_val)]
    /\ UNCHANGED <<input, tokens, parser, doc, pc, result, output, reparsed,
                 ini, heap>>

Serialize ==
    /\ pc = "done"
    /\ output' = cconfig_serialize(result)
    /\ UNCHANGED <<input, tokens, parser, doc, pc, result, call, reparsed,
                 ini, heap>>

\* cconfig_parse on the serialized text.
Reparse ==
    /\ pc = "done"
    /\ output # NULL_STRING
    /\ reparsed' = cconfig_parse(output, CallerText, ERROR_BUFFER_SIZE)
    /\ UNCHANGED <<input, tokens, parser, doc, pc, result, call, output,
                 ini, heap>>

(***************************************************************************)
(* A call of cconfig_ini_parse, one loop iteration per step.  ini holds    *)
(* the arguments, the copy of the text with the position strtok resumes    *)
(* at, the current line, the section buffer, the invocations of the        *)
(* handler so far (arguments and returned value) and the returned value.   *)
(***************************************************************************)
\* A handler that records its arguments.
Recorder == [handler |-> "recorder"]

\* What the handler may return.
HandlerReturns == {0, 1}

ini_call(ini_string, handler) ==
    [ini_string |-> ini_string, handler |-> handler, pc |-> "call",
     buffer |-> NULL_STRING, next |-> 0, line |-> NULL_STRING,
     section |-> <<>>, calls |-> <<>>, ret |-> 0]

IniUnchanged ==
    UNCHANGED <<input, tokens, parser, doc, pc, result, call, output,
                reparsed, heap>>

\* The argument check, the copy of the text and the first strtok.
IniBegin ==
    /\ ini # NULL
    /\ ini.pc = "call"
    /\ \/ /\ ini.ini_string = NULL_STRING \/ ini.handler = NULL
          /\ ini' = [ini EXCEPT !.pc = "done", !.ret = -1]
       \/ /\ ini.ini_string # NULL_STRING /\ ini.handler # NULL
          /\ \E allocated \in BOOLEAN :
                ini' = IF allocated
                       THEN LET t == strtok(ini.ini_string, 0)
                            IN  [ini EXCEPT !.pc = "loop",
                                            !.buffer = ini.ini_string,
                                            !.line = t.line,
                                            !.next = t.next]
                       ELSE [ini EXCEPT !.pc = "done", !.ret = -1]
    /\ IniUnchanged

\* The end of an iteration: the next strtok.
ini_next_line(i) ==
    LET t == strtok(i.buffer, i.next)
    IN  [i EXCEPT !.line = t.line, !.next = t.next]

IniLine(kind) ==
    /\ ini # NULL
    /\ ini.pc = "loop"
    /\ ini.line # NULL_STRING
    /\ line_kind(trim_whitespace(ini.line).ret) = kind

IniComment ==
    /\ IniLine("comment")
    /\ ini' = ini_next_line(ini)
    /\ IniUnchanged

IniSection ==
    /\ IniLine("section")
    /\ ini' = ini_next_line(
                  [ini EXCEPT !.section =
                      section_line(trim_whitespace(ini.line).ret, @)])
    /\ IniUnchanged

\* The key-value branch when the value the handler returns is not tested.
IniKeyValue_ignores_return ==
    /\ IniLine("key_value")
    /\ \E returned \in HandlerReturns :
          LET args == key_value_line(trim_whitespace(ini.line).ret,
                                     ini.section)
              invoked == [ini EXCEPT !.calls =
                             Append(@, [section |-> args.section,
                                        key |-> args.key,
                                        value |-> args.value,
                                        ret |-> returned])]
          IN  ini' = ini_next_line(invoked)
    /\ IniUnchanged

\* The handler is invoked; a non-zero return leaves the loop, and the call
\* frees the copy and returns 0.
IniKeyValue ==
    /\ IniLine("key_value")
    /\ \E returned \in HandlerReturns :
          LET args == key_value_line(trim_whitespace(ini.line).ret,
                                     ini.section)
              invoked == [ini EXCEPT !.calls =
                             Append(@, [section |-> args.section,
                                        key |-> args.key,
                                        value |-> args.value,
                                        ret |-> returned])]
          IN  ini' = IF returned # 0
                     THEN [invoked EXCEPT !.pc = "done", !.ret = 0]
                     ELSE ini_next_line(invoked)
    /\ IniUnchanged

IniOther ==
    /\ IniLine("other")
    /\ ini' = ini_next_line(ini)
    /\ IniUnchanged

\* strtok returned NULL: the copy is freed and the call returns 0.
IniEnd ==
    /\ ini # NULL
    /\ ini.pc = "loop"
    /\ ini.line = NULL_STRING
    /\ ini' = [ini EXCEPT !.pc = "done", !.ret = 0]
    /\ IniUnchanged

IniParse ==
    IniBegin \/ IniComment \/ IniSection \/ IniKeyValue \/ IniOther \/ IniEnd

\* The other variables while cconfig_ini_parse is followed.
InitIniWith(texts, handlers) ==
    /\ input = <<>>
    /\ tokens = <<>>
    /\ parser = parser_init(CallerText, ERROR_BUFFER_SIZE)
    /\ doc = NULL
    /\ pc = "idle"
    /\ result = NULL
    /\ call = NULL
    /\ output = NULL_STRING
    /\ reparsed = NULL
    /\ heap = NULL
    /\ \E ini_string \in texts, handler \in handlers :
          ini = ini_call(ini_string, handler)

(***************************************************************************)
(* The allocations of a call of cconfig_parse.  heap holds the call: the   *)
(* statements of the text, the blocks handed out so far (cells, with the   *)
(* number of times each was released), the document under construction    *)
(* with the block of every object, and the position in the loop.  fails    *)
(* is the set of allocation requests, counted from 1, that return NULL;    *)
(* traps tells whether a write through NULL stops the process.             *)
(***************************************************************************)
heap_call(statements, fails, traps) ==
    [statements |-> statements, fails |-> fails, traps |-> traps,
     pc |-> "call", next |-> 1, requests |-> 0, cells |-> <<>>,
     doc |-> NULL, current_table |-> 0, panic_mode |-> FALSE,
     null_deref |-> FALSE, ret |-> "pending"]

\* malloc and calloc: the block, 0 for NULL.
malloc(h, site) ==
    LET asked == [h EXCEPT !.requests = @ + 1]
    IN  IF asked.requests \in h.fails
        THEN [h |-> asked, ptr |-> 0]
        ELSE [h |-> [asked EXCEPT
                        !.cells = Append(@, [site |-> site, frees |-> 0])],
              ptr |-> Len(h.cells) + 1]

free(h, ptr) ==
    IF ptr = 0 THEN h ELSE [h EXCEPT !.cells[ptr].frees = @ + 1]

\* realloc: a new block in exchange for the old one, or NULL and the old
\* block as it was.
realloc(h, old, site) ==
    LET m == malloc(h, site)
    IN  IF m.ptr = 0 THEN m ELSE [h |-> free(m.h, old), ptr |-> m.ptr]

\* parser_error, as far as the return of the call depends on it.
set_panic(h) == [h EXCEPT !.panic_mode = TRUE]

RECURSIVE free_value(_, _)
RECURSIVE free_values(_, _, _)
RECURSIVE free_table(_, _)
RECURSIVE free_pairs(_, _, _)
\* The loop of the ARRAY case of cconfig_free_value.
free_values(h, values, i) ==
    IF i > Len(values) THEN h
    ELSE free_values(free_value(h, values[i]), values, i + 1)

\* cconfig_free_value.
free_value(h, value) ==
    IF value = NULL THEN h
    ELSE LET inner ==
                 CASE value.type = "STRING" -> free(h, value.s)
                   [] value.type = "ARRAY" ->
                        free(free(free_values(h, value.a.values, 1),
                                  value.a.values_ptr),
                             value.a.ptr)
                   [] value.type = "TABLE" -> free_table(h, value.t)
                   [] OTHER -> h
         IN  free(inner, value.ptr)

\* The loop of cconfig_free_table.
free_pairs(h, pairs, i) ==
    IF i > Len(pairs) THEN h
    ELSE free_pairs(free(free_value(free(h, pairs[i].key_ptr),
                                    pairs[i].value),
                         pairs[i].ptr),
                    pairs, i + 1)

\* cconfig_free_table.
free_table(h, table) ==
    IF table = NULL THEN h
    ELSE free(free(free_pairs(h, table.pairs, 1), table.pairs_ptr),
              table.ptr)

\* cconfig_free(doc).
free_document(h) ==
    IF h.doc = NULL THEN h
    ELSE free(free_table(h, h.doc.root), h.doc.ptr)

\* cconfig_table_add_pair with its realloc.
table_add_pair(h, table, pair) ==
    IF Len(table.pairs) >= table.capacity
    THEN LET m == realloc(h, table.pairs_ptr, "pairs")
         IN  IF m.ptr = 0
             THEN [h |-> m.h, ok |-> FALSE, table |-> table]
             ELSE [h |-> m.h, ok |-> TRUE,
                   table |-> [table EXCEPT
                       !.pairs_ptr = m.ptr,
                       !.capacity = IF @ = 0 THEN 8 ELSE @ * 2,
                       !.pairs = Append(@, pair)]]
    ELSE [h |-> h, ok |-> TRUE,
          table |-> [table EXCEPT !.pairs = Append(@, pair)]]

\* cconfig_array_add_value with its realloc.
array_add_value(h, array, value) ==
    IF Len(array.values) >= array.capacity
    THEN LET m == realloc(h, array.values_ptr, "values")
         IN  IF m.ptr = 0
             THEN [h |-> m.h, ok |-> FALSE, array |-> array]
             ELSE [h |-> m.h, ok |-> TRUE,
                   array |-> [array EXCEPT
                       !.values_ptr = m.ptr,
                       !.capacity = IF @ = 0 THEN 8 ELSE @ * 2,
                       !.values = Append(@, value)]]
    ELSE [h |-> h, ok |-> TRUE,
          array |-> [array EXCEPT !.values = Append(@, value)]]

RECURSIVE value_blocks(_, _)
RECURSIVE element_blocks(_, _, _, _)
\* The loop of the array case of parse_value on the elements from the i-th
\* on; whole is the array value read so far.
element_blocks(h, whole, elements, i) ==
    IF i > Len(elements) THEN [h |-> h, val |-> whole]
    ELSE LET elem == value_blocks(h, elements[i])
         IN  IF elem.h.pc = "crashed" THEN [h |-> elem.h, val |-> NULL]
             ELSE IF elem.val = NULL
             THEN [h |-> free_value(elem.h, whole), val |-> NULL]
             ELSE LET added == array_add_value(elem.h, whole.a, elem.val)
                  IN  IF ~added.ok
                      THEN [h |-> set_panic(free_value(
                                      free_value(added.h, elem.val), whole)),
                            val |-> NULL]
                      ELSE element_blocks(added.h,
                                          [whole EXCEPT !.a = added.array],
                                          elements, i + 1)

\* parse_value: the blocks of a value of the given kind.  The store to
\* val->type comes before the test of val, so a NULL from malloc is
\* written through: the process stops, or the store is lost and the test
\* is reached.
value_blocks(h, kind) ==
    LET m == malloc(h, "value")
    IN  IF m.ptr = 0
        THEN [h |-> IF h.traps
                    THEN [m.h EXCEPT !.null_deref = TRUE, !.pc = "crashed"]
                    ELSE set_panic([m.h EXCEPT !.null_deref = TRUE]),
              val |-> NULL]
        ELSE CASE kind.type = "STRING" ->
                    LET s == malloc(m.h, "string")
                    IN  IF s.ptr = 0
                        THEN [h |-> set_panic(free(s.h, m.ptr)), val |-> NULL]
                        ELSE [h |-> s.h,
                              val |-> [ptr |-> m.ptr, type |-> "STRING",
                                       s |-> s.ptr]]
               [] kind.type = "INTEGER" ->
                    [h |-> m.h, val |-> [ptr |-> m.ptr, type |-> "INTEGER"]]
               [] kind.type = "ARRAY" ->
                    LET a == malloc(m.h, "array")
                    IN  IF a.ptr = 0
                        THEN [h |-> set_panic(free(a.h, m.ptr)), val |-> NULL]
                        ELSE element_blocks(a.h,
                                 [ptr |-> m.ptr, type |-> "ARRAY",
                                  a |-> [ptr |-> a.ptr, values_ptr |-> 0,
                                         capacity |-> 0, values |-> <<>>]],
                                 kind.elements, 1)
               [] OTHER -> [h |-> free(m.h, m.ptr), val |-> NULL]

\* parse_key_value for key = value: the value, the pair, the key, and the
\* pair added to table.
key_value_blocks(h, table, statement) ==
    LET v == value_blocks(h, statement.value)
        p == malloc(v.h, "pair")
        k == malloc(p.h, "key")
        pair == [ptr |-> p.ptr, key_ptr |-> k.ptr, key |-> statement.key,
                 value |-> v.val]
        added == table_add_pair(k.h, table, pair)
    IN  IF v.val = NULL THEN [h |-> v.h, ok |-> FALSE, table |-> table]
        ELSE IF p.ptr = 0
        THEN [h |-> set_panic(p.h), ok |-> FALSE, table |-> table]
        ELSE IF k.ptr = 0
        THEN [h |-> set_panic(free(k.h, p.ptr)), ok |-> FALSE,
              table |-> table]
        ELSE IF ~added.ok
        THEN [h |-> set_panic(free(free(free_value(added.h, v.val), k.ptr),
                                   p.ptr)),
              ok |-> FALSE, table |-> table]
        ELSE [h |-> added.h, ok |-> TRUE, table |-> added.table]

\* find_or_create_table: the index in parent of the pair that holds the
\* table, 0 for NULL.
table_blocks(h, parent, key) ==
    LET bound == {i \in 1..Len(parent.pairs) : parent.pairs[i].key = key}
        first == CHOOSE i \in bound : \A j \in bound : i <= j
        p == malloc(h, "pair")
        k == malloc(p.h, "key")
        v == malloc(k.h, "value")
        t == malloc(v.h, "table")
        value == [ptr |-> v.ptr, type |-> "TABLE",
                  t |-> [ptr |-> t.ptr, pairs_ptr |-> 0, capacity |-> 0,
                         pairs |-> <<>>]]
        pair == [ptr |-> p.ptr, key_ptr |-> k.ptr, key |-> key,
                 value |-> value]
        added == table_add_pair(t.h, parent, pair)
        none(g) == [h |-> g, index |-> 0, table |-> parent]
    IN  IF bound # {}
        THEN IF parent.pairs[first].value.type = "TABLE"
             THEN [h |-> h, index |-> first, table |-> parent]
             ELSE none(h)
        ELSE IF p.ptr = 0 THEN none(p.h)
        ELSE IF k.ptr = 0 THEN none(free(k.h, p.ptr))
        ELSE IF v.ptr = 0 THEN none(free(free(v.h, k.ptr), p.ptr))
        ELSE IF t.ptr = 0
        THEN none(free(free(free(t.h, v.ptr), k.ptr), p.ptr))
        ELSE IF ~added.ok
        THEN none(free(free(free_value(added.h, value), k.ptr), p.ptr))
        ELSE [h |-> added.h, index |-> Len(added.table.pairs),
              table |-> added.table]

HeapUnchanged ==
    UNCHANGED <<input, tokens, parser, doc, pc, result, call, output,
                reparsed, ini>>

\* The return of NULL after cconfig_free(doc).
free_and_return(h) ==
    [free_document(h) EXCEPT !.pc = "done", !.ret = "NULL"]

\* The document and its root table.
HeapBegin ==
    /\ heap # NULL
    /\ heap.pc = "call"
    /\ LET d == malloc(heap, "document")
           r == malloc(d.h, "table")
       IN  heap' =
             IF d.ptr = 0
             THEN [set_panic(d.h) EXCEPT !.pc = "done", !.ret = "NULL"]
             ELSE IF r.ptr = 0
             THEN [set_panic(free(r.h, d.ptr)) EXCEPT
                      !.pc = "done", !.ret = "NULL"]
             ELSE [r.h EXCEPT
                      !.pc = "loop",
                      !.doc = [ptr |-> d.ptr,
                               root |-> [ptr |-> r.ptr, pairs_ptr |-> 0,
                                         capacity |-> 0, pairs |-> <<>>]]]
    /\ HeapUnchanged

\* The table that parser.current_table points to.
current_table_of(h) ==
    IF h.current_table = 0 THEN h.doc.root
    ELSE h.doc.root.pairs[h.current_table].value.t

with_current_table(h, table) ==
    IF h.current_table = 0 THEN [h EXCEPT !.doc.root = table]
    ELSE [h EXCEPT !.doc.root.pairs[h.current_table].value.t = table]

\* The iterations of the loop for a line key = value: when parse_key_value
\* returns NULL the loop reports the error and goes on; the tokens left of
\* the line are skipped by iterations that allocate nothing.
HeapKeyValue ==
    /\ heap # NULL
    /\ heap.pc = "loop"
    /\ heap.next <= Len(heap.statements)
    /\ heap.statements[heap.next].form = "pair"
    /\ LET r == key_value_blocks(heap, current_table_of(heap),
                                 heap.statements[heap.next])
       IN  heap' =
             IF r.h.pc = "crashed" THEN r.h
             ELSE IF r.ok
             THEN [with_current_table(r.h, r.table) EXCEPT !.next = @ + 1]
             ELSE [set_panic(r.h) EXCEPT !.next = @ + 1]
    /\ HeapUnchanged

\* The iterations of the loop for a line [key].
HeapHeader ==
    /\ heap # NULL
    /\ heap.pc = "loop"
    /\ heap.next <= Len(heap.statements)
    /\ heap.statements[heap.next].form = "header"
    /\ LET r == table_blocks(heap, heap.doc.root,
                             heap.statements[heap.next].key)
       IN  heap' =
             IF r.index = 0 THEN free_and_return(set_panic(r.h))
             ELSE [r.h EXCEPT !.doc.root = r.table,
                              !.current_table = r.index,
                              !.next = @ + 1]
    /\ HeapUnchanged

\* The return of the call.
HeapEnd ==
    /\ heap # NULL
    /\ heap.pc = "loop"
    /\ heap.next > Len(heap.statements)
    /\ heap' = IF heap.panic_mode THEN free_and_return(heap)
               ELSE [heap EXCEPT !.pc = "done", !.ret = "doc"]
    /\ HeapUnchanged

HeapParse == HeapBegin \/ HeapKeyValue \/ HeapHeader \/ HeapEnd

\* The other variables while the allocations of a call are followed; a
\* program is a text with its statements.
InitHeapWith(programs, failures, trapping) ==
    /\ tokens = <<>>
    /\ parser = parser_init(CallerText, ERROR_BUFFER_SIZE)
    /\ doc = NULL
    /\ pc = "idle"
    /\ result = NULL
    /\ call = NULL
    /\ output = NULL_STRING
    /\ reparsed = NULL
    /\ ini = NULL
    /\ \E program \in programs, fails \in failures, traps \in trapping :
          /\ input = program.text
          /\ heap = heap_call(program.statements, fails, traps)

Parse ==
    NextToken \/ ParseBegin \/ SkipBlank \/ TableHeader \/ KeyValue \/ ParseEnd

(***************************************************************************)
(* Input texts                                                             *)
(***************************************************************************)
RECURSIVE Flatten(_)
Flatten(texts) ==
    IF texts = <<>> THEN <<>> ELSE Head(texts) \o Flatten(Tail(texts))

SeqsUpTo(S, n) == UNION {[1..k -> S] : k \in 0..n}

\* The texts made of at most n fragments of F.
Texts(F, n) == {Flatten(s) : s \in SeqsUpTo(F, n)}

\* Lexemes for texts of arbitrary token order.
Lexemes ==
    {<<"a">>, <<"=">>, <<"1">>, <<"[">>, <<"]">>, <<".">>, <<"\n">>, <<"@">>}

MaxTokens == 4

TokenTexts == Texts(Lexemes, MaxTokens)

InitTokens == InitWith(TokenTexts, Sinks)

SpecTokens == InitTokens /\ [][Parse]_vars


(***************************************************************************)
(* Properties                                                              *)
(***************************************************************************)
HasSink == parser.error_buffer # NULL /\ parser.error_buffer_size > 0

\* C1: cconfig_parse is all-or-nothing: when the call has returned, it has
\* returned a document if and only if parser_error was never called during
\* the parse; after any error the result is NULL and the document is freed.
C1_AllOrNothing ==
    pc = "done" =>
        /\ (result # NULL) <=> (parser.calls = <<>>)
        /\ (result # NULL) <=> ~parser.panic_mode
        /\ result = NULL => doc = NULL
        /\ result # NULL => result = doc

C1_Witness ==
    /\ pc = "done"
    /\ result = NULL
    /\ Len(parser.calls) > 0
    /\ parser.current.type = "EOF"
    /\ parser.current_table # <<>>

\* C2: the error sink is written exactly when the parse fails: after a
\* failing parse a sink that exists holds one message (line, column and
\* text, those of the first error), after a successful parse the sink holds
\* what the caller left in it, a buffer of size 0 is never written, and the
\* outcome is the one of the same parse with a sink.
C2_SinkWrittenIffFailure ==
    pc = "done" =>
        /\ (result = NULL /\ HasSink) =>
              /\ DOMAIN parser.error_buffer = {"line", "col", "message"}
              /\ parser.error_buffer = parser.calls[1]
        /\ (result # NULL /\ parser.error_buffer # NULL) =>
              parser.error_buffer = CallerText
        /\ (~HasSink /\ parser.error_buffer # NULL) =>
              parser.error_buffer = CallerText
        /\ result = parse_tokens(input, tokens, CallerText,
                                 ERROR_BUFFER_SIZE).doc

C2_Witness ==
    /\ pc = "done"
    /\ result = NULL
    /\ ~HasSink
    /\ parser.panic_mode
    /\ Len(parser.calls) > 1

\* C3: first error wins: once panic_mode is set it stays set and the sink is
\* not written again, and whenever parser_error has been called the sink (if
\* any) holds the position and message of its first call.
C3_FirstErrorWins ==
    /\ [][parser.panic_mode =>
            /\ parser'.panic_mode
            /\ parser'.error_buffer = parser.error_buffer]_vars
    /\ [](parser.calls # <<>> =>
            /\ parser.panic_mode
            /\ HasSink => parser.error_buffer = parser.calls[1])

C3_Witness ==
    /\ pc = "loop"
    /\ HasSink
    /\ Len(parser.calls) >= 2
    /\ parser.calls[2].message # parser.calls[1].message
    /\ parser.calls[2].col # parser.calls[1].col
    /\ parser.error_buffer = parser.calls[1]

(***************************************************************************)
(* Structured input texts.  A case is a record holding a text and the      *)
(* pieces it was written from; the CaseOf functions give the case of a     *)
(* text.                                                                   *)
(***************************************************************************)
NL == <<"\n">>

Assign == <<" ", "=", " ">>

RECURSIVE Join(_, _)
Join(texts, sep) ==
    IF texts = <<>> THEN <<>>
    ELSE IF Len(texts) = 1 THEN texts[1]
    ELSE texts[1] \o sep \o Join(Tail(texts), sep)

Front(s) == SubSeq(s, 1, Len(s) - 1)

Last(s) == s[Len(s)]

\* The values a document holds, as parse_value builds them.
Integer(i) == [type |-> "INTEGER", i |-> i]
String(s) == [type |-> "STRING", s |-> s]
Boolean(b) == [type |-> "BOOLEAN", b |-> b]
Float(m, e) == [type |-> "FLOAT", d |-> [m |-> m, e |-> e]]
Array(a) == [type |-> "ARRAY", a |-> a]
Table(t) == [type |-> "TABLE", t |-> t]

Pair(key, value) == [key |-> key, value |-> value]

\* The value of the first pair of pairs whose key is key, NULL if none.
FirstValue(pairs, key) ==
    LET hits == {i \in 1..Len(pairs) : pairs[i].key = key}
    IN  IF hits = {} THEN NULL
        ELSE pairs[CHOOSE i \in hits : \A k \in hits : i <= k].value

\* Literals: the text, the value it denotes, and the typed accessor for that
\* value with what it returns.
Lit1 == [text |-> <<"1">>, val |-> Integer(1), fn |-> "get_int", ret |-> 1]
Lit2 == [text |-> <<"2">>, val |-> Integer(2), fn |-> "get_int", ret |-> 2]
LitS ==
    [text |-> <<"\"", "s", "\"">>, val |-> String(<<"s">>),
     fn |-> "get_string", ret |-> <<"s">>]
LitTrue ==
    [text |-> <<"t", "r", "u", "e">>, val |-> Boolean(TRUE),
     fn |-> "get_bool", ret |-> TRUE]
LitF ==
    [text |-> <<"2", ".", "5">>, val |-> Float(25, -1),
     fn |-> "get_double", ret |-> [m |-> 25, e |-> -1]]

(***************************************************************************)
(* Round trip: lines of scalars and plain tables that hold a pair.         *)
(***************************************************************************)
RoundTripLines ==
    {<<"x">> \o Assign \o <<"5">> \o NL,
     <<"s">> \o Assign \o <<"\"", "h", "i", "\"">> \o NL,
     <<"b">> \o Assign \o <<"t", "r", "u", "e">> \o NL,
     <<"[", "d", "b", "]">> \o NL \o <<"p">> \o Assign \o <<"8">> \o NL,
     <<"[", "d", "b", ".", "n", "]">> \o NL
         \o <<"o", "n">> \o Assign \o <<"t", "r", "u", "e">> \o NL}

MaxLines == 3

RoundTripTexts == Texts(RoundTripLines, MaxLines)

InitRoundTrip == InitWith(RoundTripTexts, Sink)

SpecRoundTrip == InitRoundTrip /\ [][Parse \/ Serialize \/ Reparse]_vars

\* Same type and, for a table, the same keys with equivalent values, for an
\* array equivalent elements in order, for a scalar the same value.
RECURSIVE Equivalent(_, _)
Equivalent(v, w) ==
    IF v.type # w.type THEN FALSE
    ELSE IF v.type = "TABLE"
    THEN /\ Len(v.t) = Len(w.t)
         /\ \A i \in 1..Len(v.t) : \E j \in 1..Len(w.t) :
               /\ v.t[i].key = w.t[j].key
               /\ Equivalent(v.t[i].value, w.t[j].value)
         /\ \A j \in 1..Len(w.t) : \E i \in 1..Len(v.t) :
               /\ v.t[i].key = w.t[j].key
               /\ Equivalent(v.t[i].value, w.t[j].value)
    ELSE IF v.type = "ARRAY"
    THEN /\ Len(v.a) = Len(w.a)
         /\ \A i \in 1..Len(v.a) : Equivalent(v.a[i], w.a[i])
    ELSE v = w

\* C4: round trip: when a text of scalars and plain tables has parsed, the
\* serialized document parses, to a document equivalent to the first.
C4_RoundTrip ==
    (result # NULL /\ reparsed # NULL) =>
        /\ reparsed.doc # NULL
        /\ Equivalent(Table(reparsed.doc.root), Table(result.root))

\* The round trip of a text whose pairs all sit in the root table succeeds.
C4_RootOnly ==
    /\ result # NULL
    /\ reparsed # NULL
    /\ Len(result.root) = 3
    /\ reparsed.doc = result

(***************************************************************************)
(* Accessors: documents with a value of every type, and paths that resolve *)
(* to each of them, to nothing, and into and past the arrays.              *)
(***************************************************************************)
AccessLines ==
    {<<"s">> \o Assign \o <<"\"", "h", "i", "\"">> \o NL,
     <<"i">> \o Assign \o <<"5">> \o NL,
     <<"f">> \o Assign \o <<"2", ".", "5">> \o NL,
     <<"b">> \o Assign \o <<"t", "r", "u", "e">> \o NL,
     <<"a">> \o Assign \o <<"[", "1", ",", " ", "\"", "x", "\"", "]">> \o NL,
     <<"a">> \o Assign \o <<"[", "]">> \o NL,
     <<"[", "t", "]">> \o NL,
     <<"@">> \o NL}

MaxAccessLines == 2

AccessTexts == Texts(AccessLines, MaxAccessLines)

AccessKeys == {<<"s">>, <<"i">>, <<"f">>, <<"b">>, <<"a">>, <<"t">>, <<"z">>}

\* The largest index of a path; the arrays hold at most two elements.
MaxIndex == 2

IndexRange == -1..MaxIndex

IndexPrefixes ==
    {<<"a">>, <<"i">>, <<"t">>, <<"z">>, <<"t", ".", "a">>}

IndexPath(prefix, i) == prefix \o <<"[">> \o format_lld(i) \o <<"]">>

AccessPaths ==
    AccessKeys \cup {<<"t", ".">> \o k : k \in AccessKeys}
    \cup {IndexPath(prefix, i) : prefix \in IndexPrefixes, i \in IndexRange}

GetAccess == Get(AccessPaths)

InitAccess == InitWith(AccessTexts, Sink)

SpecAccess == InitAccess /\ [][Parse \/ GetAccess]_vars

\* What the accessor fn returns for the node v that the path resolves to
\* (NULL when it resolves to nothing) and the default d.
TypedResult(fn, v, d) ==
    CASE fn = "get_string" ->
           IF v # NULL /\ v.type = "STRING" THEN v.s ELSE d
      [] fn = "get_int" ->
           IF v # NULL /\ v.type = "INTEGER" THEN v.i ELSE d
      [] fn = "get_bool" ->
           IF v # NULL /\ v.type = "BOOLEAN" THEN v.b ELSE d
      [] fn = "get_double" ->
           IF v # NULL /\ v.type = "FLOAT" THEN v.d
           ELSE IF v # NULL /\ v.type = "INTEGER"
           THEN [m |-> v.i, e |-> 0]
           ELSE d
      [] fn = "get_table" ->
           IF v # NULL /\ v.type = "TABLE" THEN v ELSE NULL
      [] fn = "get_array" ->
           IF v # NULL /\ v.type = "ARRAY" THEN v ELSE NULL
      [] fn = "get_value" -> v

\* The one-line documents and the value they store at the root.
StoredAt ==
    [text \in {<<"s">> \o Assign \o <<"\"", "h", "i", "\"">> \o NL,
               <<"i">> \o Assign \o <<"5">> \o NL,
               <<"f">> \o Assign \o <<"2", ".", "5">> \o NL,
               <<"b">> \o Assign \o <<"t", "r", "u", "e">> \o NL,
               <<"a">> \o Assign \o <<"[", "]">> \o NL} |->
        CASE text[1] = "s" -> String(<<"h", "i">>)
          [] text[1] = "i" -> Integer(5)
          [] text[1] = "f" -> Float(25, -1)
          [] text[1] = "b" -> Boolean(TRUE)
          [] text[1] = "a" -> Array(<<>>)]

\* C5: typed accessors never fail: every call returns the stored value when
\* the path resolves to a value of the requested type (for get_double also
\* the double of an Integer), and the default, or NULL for get_table and
\* get_array, otherwise; on a NULL document every call returns the default.
\* On a document of one pair the value is the one the line states: i = 5
\* gives 5.0 to get_double, f = 2.5 gives the default to get_int.
C5_TypedAccessors ==
    call # NULL =>
        /\ call.ret = TypedResult(call.fn,
                                  cconfig_get_value(result, call.key_path),
                                  call.default_val)
        /\ result = NULL =>
              call.ret = TypedResult(call.fn, NULL, call.default_val)
        /\ (input \in DOMAIN StoredAt /\ call.key_path \in AccessKeys) =>
              call.ret = TypedResult(call.fn,
                            IF call.key_path = <<input[1]>>
                            THEN StoredAt[input] ELSE NULL,
                            call.default_val)

C5_Witness ==
    /\ call # NULL
    /\ result # NULL
    /\ call.fn = "get_double"
    /\ call.key_path = <<"t", ".", "i">>
    /\ call.ret = [m |-> 5, e |-> 0]

\* C6: array indexing: for a path prefix[i], when prefix resolves to an
\* Array and 0 <= i < count the path resolves to element i; for every other
\* i, and when prefix resolves to no Array, it resolves to nothing and the
\* accessors return their default (NULL for get_table and get_array).  The
\* elements of a = [1, "x"] are the Integer 1 and the String x.
C6_ArrayIndex ==
    \A prefix \in IndexPrefixes, i \in IndexRange :
        (call # NULL /\ call.key_path = IndexPath(prefix, i)) =>
            LET node == cconfig_get_value(result, prefix)
                found == /\ node # NULL
                         /\ node.type = "ARRAY"
                         /\ 0 <= i
                         /\ i < Len(node.a)
            IN  /\ found =>
                      call.ret = TypedResult(call.fn, node.a[i + 1],
                                             call.default_val)
                /\ ~found =>
                      call.ret = TypedResult(call.fn, NULL, call.default_val)
                /\ (input = <<"a">> \o Assign
                               \o <<"[", "1", ",", " ", "\"", "x", "\"", "]">>
                               \o NL
                    /\ prefix = <<"a">>) =>
                      call.ret = TypedResult(call.fn,
                                    CASE i = 0 -> Integer(1)
                                      [] i = 1 -> String(<<"x">>)
                                      [] OTHER -> NULL,
                                    call.default_val)

C6_Witness ==
    /\ call # NULL
    /\ call.fn = "get_string"
    /\ call.key_path = <<"t", ".", "a", "[", "1", "]">>
    /\ call.ret = <<"x">>
    /\ cconfig_get_value(result, <<"t", ".", "a", "[", "2", "]">>) = NULL

(***************************************************************************)
(* Dotted keys: one statement k1.k2...kn = v, under the root table or      *)
(* under [t], alone or followed by a statement that shares its first keys. *)
(***************************************************************************)
DottedKeys == {<<"a">>, <<"b">>}

MaxDepth == 3

KeyPaths == UNION {[1..n -> DottedKeys] : n \in 1..MaxDepth}

DottedValues == {Lit1, LitS, LitTrue, LitF}

\* The key of the header before the statement, <<>> for no header.
DottedHeaders == {<<>>, <<"t">>}

FollowUps ==
    {<<>>,
     <<"a", ".", "c">> \o Assign \o <<"7">> \o NL,
     <<"a", ".", "b", ".", "c">> \o Assign \o <<"7">> \o NL,
     <<"b">> \o Assign \o <<"7">> \o NL}

DottedText(h, ks, v, f) ==
    (IF h = <<>> THEN <<>> ELSE <<"[">> \o h \o <<"]">> \o NL)
    \o Join(ks, <<".">>) \o Assign \o v.text \o NL \o f

DottedCases ==
    {[text |-> DottedText(h, ks, v, f), h |-> h, ks |-> ks, v |-> v, f |-> f] :
        h \in DottedHeaders, ks \in KeyPaths, v \in DottedValues,
        f \in FollowUps}

DottedCaseOf ==
    [text \in {c.text : c \in DottedCases} |->
        CHOOSE c \in DottedCases : c.text = text]

\* The path of the keys ks under the header h.
PathText(h, ks) == Join((IF h = <<>> THEN <<>> ELSE <<h>>) \o ks, <<".">>)

DottedPaths == {PathText(h, ks) : h \in DottedHeaders, ks \in KeyPaths}

GetDotted == Get(DottedPaths)

InitDotted == InitWith({c.text : c \in DottedCases}, Sink)

SpecDotted == InitDotted /\ [][Parse \/ GetDotted]_vars

\* The pairs k1 = {k2 = ... {kn = v}}.
RECURSIVE Nest(_, _)
Nest(ks, val) ==
    IF Len(ks) = 1 THEN <<Pair(ks[1], val)>>
    ELSE <<Pair(ks[1], Table(Nest(Tail(ks), val)))>>

\* No table of the tree holds two Table-valued pairs with the same key.
RECURSIVE TablesOnce(_)
TablesOnce(tbl) ==
    /\ \A i, j \in 1..Len(tbl) :
          (/\ i # j
           /\ tbl[i].value.type = "TABLE"
           /\ tbl[j].value.type = "TABLE") => tbl[i].key # tbl[j].key
    /\ \A i \in 1..Len(tbl) :
          tbl[i].value.type = "TABLE" => TablesOnce(tbl[i].value.t)

\* C7: dotted keys: after a text whose first statement is k1...kn = v under
\* the active table, the typed accessor for v's type called with the path of
\* the keys returns v, get_table on the path without its last key returns a
\* Table that holds kn = v, and no table holds two tables under one key;
\* when the statement is alone the document is exactly the nested tables
\* k1 = {k2 = ... {kn = v}} under the active table.
C7_DottedKeys ==
    (pc = "done" /\ input \in DOMAIN DottedCaseOf) =>
        LET c == DottedCaseOf[input]
            above == (IF c.h = <<>> THEN <<>> ELSE <<c.h>>) \o Front(c.ks)
        IN  /\ c.f = <<>> =>
                  result = [root |-> Nest((IF c.h = <<>> THEN <<>>
                                           ELSE <<c.h>>) \o c.ks, c.v.val)]
            /\ result # NULL =>
                  /\ TablesOnce(result.root)
                  /\ (call # NULL /\ call.key_path = PathText(c.h, c.ks)) =>
                        /\ call.fn = c.v.fn => call.ret = c.v.ret
                        /\ call.fn = "get_value" => call.ret = c.v.val
                  /\ (/\ call # NULL
                      /\ above # <<>>
                      /\ call.key_path = Join(above, <<".">>)
                      /\ call.fn = "get_table") =>
                        /\ call.ret # NULL
                        /\ call.ret.type = "TABLE"
                        /\ FirstValue(call.ret.t, Last(c.ks)) = c.v.val

C7_Witness ==
    /\ pc = "done"
    /\ input = DottedText(<<"t">>, <<<<"a">>, <<"b">>, <<"a">>>>, LitS,
                          <<"a", ".", "b", ".", "c">> \o Assign \o <<"7">>
                              \o NL)
    /\ call # NULL
    /\ call.fn = "get_string"
    /\ call.key_path = <<"t", ".", "a", ".", "b", ".", "a">>
    /\ call.ret = <<"s">>
    /\ result.root =
           <<Pair(<<"t">>, Table(<<Pair(<<"a">>, Table(<<Pair(<<"b">>,
               Table(<<Pair(<<"a">>, String(<<"s">>)),
                       Pair(<<"c">>, Integer(7))>>))>>))>>))>>

(***************************************************************************)
(* Duplicate keys: lines k = v over two keys, and the header [t], in any   *)
(* order.                                                                  *)
(***************************************************************************)
DupKeys == {<<"a">>, <<"b">>}

DupValues == {Lit1, Lit2, LitS}

\* A line: a pair, or the header [t] (key = <<>>).
DupLines ==
    {[key |-> k, v |-> v] : k \in DupKeys, v \in DupValues}
    \cup {[key |-> <<>>, v |-> Lit1]}

MaxPairs == 3

DupLineText(l) ==
    IF l.key = <<>> THEN <<"[", "t", "]">> \o NL
    ELSE l.key \o Assign \o l.v.text \o NL

DupText(lines) == Flatten([i \in 1..Len(lines) |-> DupLineText(lines[i])])

DupCases ==
    {[text |-> DupText(lines), lines |-> lines] :
        lines \in SeqsUpTo(DupLines, MaxPairs)}

DupCaseOf ==
    [text \in {c.text : c \in DupCases} |->
        CHOOSE c \in DupCases : c.text = text]

DupPaths == DupKeys \cup {<<"t", ".">> \o k : k \in DupKeys}

GetDup == Get(DupPaths)

InitDup == InitWith({c.text : c \in DupCases}, Sink)

SpecDup == InitDup /\ [][Parse \/ GetDup]_vars

\* The pairs the lines state, one per line and in the order of the lines.
RECURSIVE PairsOf(_)
PairsOf(lines) ==
    IF lines = <<>> THEN <<>>
    ELSE IF Head(lines).key = <<>> THEN PairsOf(Tail(lines))
    ELSE <<Pair(Head(lines).key, Head(lines).v.val)>> \o PairsOf(Tail(lines))

\* The root table after the lines: the pairs before the first header, then
\* the table t with the pairs after it.
DupRoot(lines) ==
    LET headers == {i \in 1..Len(lines) : lines[i].key = <<>>}
        h == CHOOSE i \in headers : \A k \in headers : i <= k
    IN  IF headers = {} THEN PairsOf(lines)
        ELSE PairsOf(SubSeq(lines, 1, h - 1))
             \o <<Pair(<<"t">>,
                       Table(PairsOf(SubSeq(lines, h + 1, Len(lines)))))>>

\* C8: duplicate keys: every text of lines k = v parses, each table holds
\* one pair per line in the order of the lines, whatever keys came before,
\* and a lookup of k resolves to the value of the first line with key k in
\* that table: after a = 1 and a = 2, get_int(doc, "a", 0) is 1.
C8_DuplicateKeys ==
    (pc = "done" /\ input \in DOMAIN DupCaseOf) =>
        LET lines == DupCaseOf[input].lines
            root == DupRoot(lines)
            t == FirstValue(root, <<"t">>)
        IN  /\ result = [root |-> root]
            /\ \A k \in DupKeys :
                  /\ (call # NULL /\ call.key_path = k) =>
                        call.ret = TypedResult(call.fn, FirstValue(root, k),
                                               call.default_val)
                  /\ (call # NULL /\ call.key_path = <<"t", ".">> \o k) =>
                        call.ret = TypedResult(call.fn,
                                      IF t = NULL THEN NULL
                                      ELSE FirstValue(t.t, k),
                                      call.default_val)
            /\ (/\ Len(lines) >= 2
                /\ lines[1] = [key |-> <<"a">>, v |-> Lit1]
                /\ lines[2] = [key |-> <<"a">>, v |-> Lit2]
                /\ call # NULL
                /\ call.fn = "get_int"
                /\ call.key_path = <<"a">>) => call.ret = 1

C8_Witness ==
    /\ pc = "done"
    /\ input = <<"a">> \o Assign \o <<"1">> \o NL
                   \o <<"a">> \o Assign \o <<"2">> \o NL
    /\ result = [root |-> <<Pair(<<"a">>, Integer(1)),
                            Pair(<<"a">>, Integer(2))>>]
    /\ call # NULL
    /\ call.fn = "get_int"
    /\ call.key_path = <<"a">>
    /\ call.default_val = 0
    /\ call.ret = 1

(***************************************************************************)
(* Array literals: k = [e1, ..., en] closed after the last element, closed *)
(* after a comma and a gap of spaces, newlines and comments, and the empty *)
(* array; alone, inside another array, under a header, and after a         *)
(* character the lexer rejects.                                            *)
(***************************************************************************)
LitArray ==
    [text |-> <<"[", "2", "]">>, val |-> Array(<<Integer(2)>>),
     fn |-> "get_array", ret |-> Array(<<Integer(2)>>)]

ArrayElements == {Lit1, LitS, LitArray}

MaxElements == 2

ElementLists == UNION {[1..n -> ArrayElements] : n \in 1..MaxElements}

GapItems == {<<" ">>, NL, <<"#", "c">> \o NL}

MaxGap == 2

Gaps == Texts(GapItems, MaxGap)

ElementsText(es) == Join([i \in 1..Len(es) |-> es[i].text], <<",", " ">>)

ElementsValue(es) == Array([i \in 1..Len(es) |-> es[i].val])

\* comma = TRUE: a comma and the gap follow the last element.
ArrayText(es, comma, gap) ==
    <<"[">> \o ElementsText(es) \o (IF comma THEN <<",">> \o gap ELSE <<>>)
    \o <<"]">>

\* The text of a case: place is "alone", "inner" (the array is the first
\* element of an array), "header" (under [t]) or "error" (after '@').
ArrayCaseText(place, es, comma, gap) ==
    CASE place = "alone" ->
           <<"k">> \o Assign \o ArrayText(es, comma, gap) \o NL
      [] place = "inner" ->
           <<"k">> \o Assign \o <<"[">> \o ArrayText(es, comma, gap)
               \o <<",", " ", "1", "]">> \o NL
      [] place = "header" ->
           <<"[", "t", "]">> \o NL
               \o <<"k">> \o Assign \o ArrayText(es, comma, gap) \o NL
      [] place = "error" ->
           <<"k">> \o Assign \o <<"@">> \o ArrayText(es, comma, gap) \o NL

ArrayCase(place, es, comma, gap) ==
    [text |-> ArrayCaseText(place, es, comma, gap), place |-> place,
     es |-> es, comma |-> comma, gap |-> gap]

ArrayCases ==
    {ArrayCase("alone", es, TRUE, gap) : es \in ElementLists, gap \in Gaps}
    \cup {ArrayCase("alone", es, FALSE, <<>>) :
             es \in ElementLists \cup {<<>>}}
    \cup {ArrayCase(place, <<e>>, TRUE, gap) :
             place \in {"inner", "header", "error"}, e \in ArrayElements,
             gap \in Gaps}
    \cup {ArrayCase(place, <<e>>, FALSE, <<>>) :
             place \in {"inner", "header", "error"}, e \in ArrayElements}

ArrayCaseOf ==
    [text \in {c.text : c \in ArrayCases} |->
        CHOOSE c \in ArrayCases : c.text = text]

InitArrays == InitWith({c.text : c \in ArrayCases}, Sink)

SpecArrays == InitArrays /\ [][Parse]_vars

TrailingCommaMessage == "Expected ']' to close array."

\* The document of a case whose array is closed after its last element.
ArrayRoot(c) ==
    CASE c.place = "inner" ->
           <<Pair(<<"k">>, Array(<<ElementsValue(c.es), Integer(1)>>))>>
      [] c.place = "header" ->
           <<Pair(<<"t">>, Table(<<Pair(<<"k">>, ElementsValue(c.es))>>))>>
      [] OTHER -> <<Pair(<<"k">>, ElementsValue(c.es))>>

AotNames == {<<"p">>, <<"q">>}

\* A section: its name and its number of pairs (k, then j).
AotSections == {[name |-> nm, pairs |-> n] : nm \in AotNames, n \in 0..2}

MaxHeaders == 2

\* The elements p holds before the first header; <<>> with prior = FALSE
\* for no line before the first header.
AotPriors ==
    {[prior |-> FALSE, elements |-> <<>>],
     [prior |-> TRUE, elements |-> <<>>],
     [prior |-> TRUE, elements |-> <<Lit1>>]}

SectionPairs(sections, s) ==
    SubSeq(<<Pair(<<"k">>, Integer(s)), Pair(<<"j">>, String(<<"x">>))>>,
           1, sections[s].pairs)

SectionText(sections, s) ==
    <<"[", "[">> \o sections[s].name \o <<"]", "]">> \o NL
    \o (IF sections[s].pairs >= 1
        THEN <<"k">> \o Assign \o format_lld(s) \o NL ELSE <<>>)
    \o (IF sections[s].pairs >= 2
        THEN <<"j">> \o Assign \o <<"\"", "x", "\"">> \o NL ELSE <<>>)

AotText(prior, sections) ==
    (IF prior.prior
     THEN <<"p">> \o Assign \o ArrayText(prior.elements, FALSE, <<>>) \o NL
     ELSE <<>>)
    \o Flatten([s \in 1..Len(sections) |-> SectionText(sections, s)])

AotCases ==
    {[text |-> AotText(prior, sections), prior |-> prior,
      sections |-> sections] :
        prior \in AotPriors,
        sections \in UNION {[1..n -> AotSections] : n \in 1..MaxHeaders}}

AotCaseOf ==
    [text \in {c.text : c \in AotCases} |->
        CHOOSE c \in AotCases : c.text = text]

AotPaths ==
    AotNames
    \cup {IndexPath(nm, i) : nm \in AotNames, i \in 0..(MaxHeaders + 1)}
    \cup {IndexPath(nm, i) \o <<".">> \o k :
             nm \in AotNames, i \in 0..(MaxHeaders + 1),
             k \in {<<"k">>, <<"j">>}}

GetAot == Get(AotPaths)

InitAot == InitWith({c.text : c \in AotCases}, Sink)

SpecAot == InitAot /\ [][Parse \/ GetAot]_vars

\* The sections of sections named nm, in order.
SectionsOf(sections, nm) ==
    LET named(s) == sections[s].name = nm
    IN  SelectSeq([s \in 1..Len(sections) |-> s], named)

\* The number of sections named like section s that come before it.
RankOf(sections, s) == Len(SectionsOf(SubSeq(sections, 1, s - 1),
                                      sections[s].name))

\* The elements the array nm holds before the first header.
PriorOf(c, nm) ==
    IF c.prior.prior /\ nm = <<"p">>
    THEN [i \in 1..Len(c.prior.elements) |-> c.prior.elements[i].val]
    ELSE <<>>

\* The array bound to nm: what it held, then one table per section.
AotArray(c, nm) ==
    LET ss == SectionsOf(c.sections, nm)
    IN  Array(PriorOf(c, nm)
              \o [i \in 1..Len(ss) |-> Table(SectionPairs(c.sections, ss[i]))])

\* The names bound in the root table, in the order they were bound.
RECURSIVE AotOrder(_, _)
AotOrder(names, seen) ==
    IF names = <<>> THEN seen
    ELSE IF \E i \in 1..Len(seen) : seen[i] = Head(names)
    THEN AotOrder(Tail(names), seen)
    ELSE AotOrder(Tail(names), Append(seen, Head(names)))

AotRoot(c) ==
    LET order == AotOrder([s \in 1..Len(c.sections) |-> c.sections[s].name],
                          IF c.prior.prior THEN <<<<"p">>>> ELSE <<>>)
    IN  [i \in 1..Len(order) |-> Pair(order[i], AotArray(c, order[i]))]

\* What a call on path returns when the path resolves to node.
Returns(path, node) ==
    (call # NULL /\ call.key_path = path) =>
        call.ret = TypedResult(call.fn, node, call.default_val)

\* The pairs of section s are reachable as name[first + rank].key, and no
\* other key is.
SectionReachable(c, s, first) ==
    LET nm == c.sections[s].name
        at == IndexPath(nm, first + RankOf(c.sections, s))
        pairs == SectionPairs(c.sections, s)
    IN  /\ Returns(at, Table(pairs))
        /\ \A k \in {<<"k">>, <<"j">>} :
              Returns(at \o <<".">> \o k, FirstValue(pairs, k))

\* C10 as stated: after n headers the array bound to name holds n tables,
\* and the pairs after the i-th header are the pairs at name[i].
C10_AsStated ==
    (pc = "done" /\ input \in DOMAIN AotCaseOf) =>
        LET c == AotCaseOf[input]
        IN  /\ result # NULL
            /\ \A nm \in AotNames :
                  SectionsOf(c.sections, nm) # <<>> =>
                      /\ FirstValue(result.root, nm).type = "ARRAY"
                      /\ Len(FirstValue(result.root, nm).a) =
                             Len(SectionsOf(c.sections, nm))
            /\ \A s \in 1..Len(c.sections) : SectionReachable(c, s, 0)

\* C10: array of tables: each [[name]] header appends one new empty Table
\* at the end of the array bound to name, created empty by the first header
\* unless name is already bound to an array, and the pairs that follow the
\* header go to that table: after n headers the array holds the m elements
\* it held before the first header and then n tables, and the pairs after
\* the i-th header (0-based) are exactly the pairs at name[m + i].
C10_ArrayOfTables ==
    (pc = "done" /\ input \in DOMAIN AotCaseOf) =>
        LET c == AotCaseOf[input]
        IN  /\ result = [root |-> AotRoot(c)]
            /\ \A nm \in AotNames :
                  SectionsOf(c.sections, nm) # <<>> =>
                      /\ Returns(nm, AotArray(c, nm))
                      /\ Len(FirstValue(result.root, nm).a) =
                             Len(PriorOf(c, nm))
                             + Len(SectionsOf(c.sections, nm))
            /\ \A s \in 1..Len(c.sections) :
                  SectionReachable(c, s,
                                   Len(PriorOf(c, c.sections[s].name)))

C10_Witness ==
    /\ pc = "done"
    /\ input = AotText([prior |-> TRUE, elements |-> <<Lit1>>],
                       <<[name |-> <<"p">>, pairs |-> 1],
                         [name |-> <<"p">>, pairs |-> 2]>>)
    /\ result # NULL
    /\ call # NULL
    /\ call.fn = "get_int"
    /\ call.key_path = <<"p", "[", "2", "]", ".", "k">>
    /\ call.ret = 2

(***************************************************************************)
(* Standard table headers: up to MaxStatements lines, each a pair, a pair  *)
(* with a dotted key, a header [k1.k2...] or a header [[p]].  The keys of  *)
(* the pairs are never keys of tables, so every text parses.               *)
(***************************************************************************)
KeyStep(key) == [key |-> key, last |-> FALSE]

\* The last element of the array bound to key.
LastStep(key) == [key |-> key, last |-> TRUE]

HeaderLines ==
    {[kind |-> "pair", at |-> <<>>,
      pair |-> Pair(<<"t", "i", "t", "l", "e">>, String(<<"x">>)),
      text |-> <<"t", "i", "t", "l", "e">> \o Assign \o <<"\"", "x", "\"">>],
     [kind |-> "pair", at |-> <<>>,
      pair |-> Pair(<<"p", "o", "r", "t">>, Integer(5)),
      text |-> <<"p", "o", "r", "t">> \o Assign \o <<"5">>],
     [kind |-> "pair", at |-> <<KeyStep(<<"d", "b">>)>>,
      pair |-> Pair(<<"p", "o", "r", "t">>, Integer(5)),
      text |-> <<"d", "b", ".", "p", "o", "r", "t">> \o Assign \o <<"5">>],
     [kind |-> "table", at |-> <<KeyStep(<<"d", "b">>)>>,
      pair |-> NULL,
      text |-> <<"[", "d", "b", "]">>],
     [kind |-> "table", at |-> <<KeyStep(<<"s">>)>>,
      pair |-> NULL,
      text |-> <<"[", "s", "]">>],
     [kind |-> "table", at |-> <<KeyStep(<<"d", "b">>), KeyStep(<<"s">>)>>,
      pair |-> NULL,
      text |-> <<"[", "d", "b", ".", "s", "]">>],
     [kind |-> "array", at |-> <<LastStep(<<"p">>)>>,
      pair |-> NULL,
      text |-> <<"[", "[", "p", "]", "]">>]}

MaxStatements == 3

HeaderText(lines) == Flatten([i \in 1..Len(lines) |-> lines[i].text \o NL])

HeaderCases ==
    {[text |-> HeaderText(lines), lines |-> lines] :
        lines \in SeqsUpTo(HeaderLines, MaxStatements) \ {<<>>}}

HeaderCaseOf ==
    [text \in {c.text : c \in HeaderCases} |->
        CHOOSE c \in HeaderCases : c.text = text]

InitHeaders == InitWith({c.text : c \in HeaderCases}, Sink)

SpecHeaders == InitHeaders /\ [][Parse]_vars

\* The table that the steps of path lead to from tbl.
RECURSIVE Reach(_, _)
Reach(tbl, path) ==
    IF path = <<>> THEN tbl
    ELSE LET v == FirstValue(tbl, path[1].key)
         IN  Reach(IF path[1].last THEN v.a[Len(v.a)].t ELSE v.t, Tail(path))

\* The table tbl with pairs appended to the table that the steps of path
\* lead to from it, each missing table on the way created empty.
RECURSIVE Grow(_, _, _)
Grow(tbl, path, pairs) ==
    IF path = <<>> THEN tbl \o pairs
    ELSE LET key == path[1].key
             hits == {i \in 1..Len(tbl) : tbl[i].key = key}
             i == CHOOSE h \in hits : \A k \in hits : h <= k
             n == Len(tbl[i].value.a)
         IN  IF hits = {}
             THEN Append(tbl, Pair(key, Table(Grow(<<>>, Tail(path), pairs))))
             ELSE IF path[1].last
             THEN [tbl EXCEPT ![i].value.a[n].t = Grow(@, Tail(path), pairs)]
             ELSE [tbl EXCEPT ![i].value.t = Grow(@, Tail(path), pairs)]

\* The table tbl with one more empty table in the array bound to key.
WithElement(tbl, key) ==
    LET hits == {i \in 1..Len(tbl) : tbl[i].key = key}
        i == CHOOSE h \in hits : TRUE
    IN  IF hits = {} THEN Append(tbl, Pair(key, Array(<<Table(<<>>)>>)))
        ELSE [tbl EXCEPT ![i].value.a = Append(@, Table(<<>>))]

\* The document of the first n lines: its root table, and the steps from
\* the root to the table of the last header (none before the first header).
RECURSIVE HeaderDoc(_, _)
HeaderDoc(lines, n) ==
    IF n = 0 THEN [root |-> <<>>, current |-> <<>>]
    ELSE LET d == HeaderDoc(lines, n - 1)
             l == lines[n]
         IN  CASE l.kind = "pair" ->
                    [root |-> Grow(d.root, d.current \o l.at, <<l.pair>>),
                     current |-> d.current]
               [] l.kind = "table" ->
                    [root |-> Grow(d.root, l.at, <<>>), current |-> l.at]
               [] l.kind = "array" ->
                    [root |-> WithElement(d.root, l.at[1].key),
                     current |-> l.at]

\* C11: standard table header: [k1.k2...kn] is resolved from the document
\* root, whatever table was current, each missing table on the way created
\* and each existing one reused, and the table of kn becomes the current
\* table: the pairs of the lines up to the next header are inserted there.
C11_StandardHeader ==
    (pc = "done" /\ input \in DOMAIN HeaderCaseOf) =>
        LET c == HeaderCaseOf[input]
            d == HeaderDoc(c.lines, Len(c.lines))
        IN  /\ result = [root |-> d.root]
            /\ TablesOnce(result.root)
            /\ TableAt(result.root, parser.current_table)
                   = Reach(d.root, d.current)

\* title = "x", [db], port = 5: title at the root and port under db.
C11_Witness ==
    /\ pc = "done"
    /\ input = <<"t", "i", "t", "l", "e", " ", "=", " ", "\"", "x", "\"", "\n",
                 "[", "d", "b", "]", "\n",
                 "p", "o", "r", "t", " ", "=", " ", "5", "\n">>
    /\ result =
           [root |-> <<Pair(<<"t", "i", "t", "l", "e">>, String(<<"x">>)),
                       Pair(<<"d", "b">>,
                            Table(<<Pair(<<"p", "o", "r", "t">>,
                                         Integer(5))>>))>>]

(***************************************************************************)
(* INI texts: up to MaxIniLines lines, each ended by "\n" or by "\r\n".    *)
(* A line case holds the text of the line, what the line is (kind), and    *)
(* the key and value, or the section name, written in it.                  *)
(***************************************************************************)
\* A section name that does not fit the section buffer.
LongName == [i \in 1..(SECTION_BUFFER_SIZE + 2) |-> "n"]

IniLines ==
    {[kind |-> "key_value", text |-> <<"k", " ", "=", " ", "v">>,
      key |-> <<"k">>, value |-> <<"v">>, name |-> <<>>],
     [kind |-> "key_value", text |-> <<"a", "=", "1">>,
      key |-> <<"a">>, value |-> <<"1">>, name |-> <<>>],
     [kind |-> "key_value",
      text |-> <<"\t", "b", " ", "=", " ", " ", "x", " ", "y", " ">>,
      key |-> <<"b">>, value |-> <<"x", " ", "y">>, name |-> <<>>],
     [kind |-> "key_value", text |-> <<"a", " ", "=", " ", "b", "=", "c">>,
      key |-> <<"a">>, value |-> <<"b", "=", "c">>, name |-> <<>>],
     [kind |-> "comment", text |-> <<"#", " ", "c">>,
      key |-> <<>>, value |-> <<>>, name |-> <<>>],
     [kind |-> "comment", text |-> <<" ", ";", "k", "=", "v">>,
      key |-> <<>>, value |-> <<>>, name |-> <<>>],
     [kind |-> "section", text |-> <<"[", "s", "]">>,
      key |-> <<>>, value |-> <<>>, name |-> <<"s">>],
     [kind |-> "section", text |-> <<"[", " ", "t", " ", "]">>,
      key |-> <<>>, value |-> <<>>, name |-> <<"t">>],
     [kind |-> "section", text |-> <<" ", "[", "u", "]", " ", "k", "=", "v">>,
      key |-> <<>>, value |-> <<>>, name |-> <<"u">>],
     [kind |-> "section", text |-> <<"[">> \o LongName \o <<"]">>,
      key |-> <<>>, value |-> <<>>, name |-> LongName],
     [kind |-> "other", text |-> <<"x">>,
      key |-> <<>>, value |-> <<>>, name |-> <<>>],
     [kind |-> "other", text |-> <<" ">>,
      key |-> <<>>, value |-> <<>>, name |-> <<>>]}

MaxIniLines == 3

LineEnds == {<<"\n">>, <<"\r", "\n">>}

IniText(lines, end) == Flatten([i \in 1..Len(lines) |-> lines[i].text \o end])

IniCases ==
    {[text |-> IniText(lines, end), lines |-> lines] :
        lines \in SeqsUpTo(IniLines, MaxIniLines), end \in LineEnds}

IniCaseOf ==
    [text \in {c.text : c \in IniCases} |->
        CHOOSE c \in IniCases : c.text = text]

InitIni ==
    InitIniWith({c.text : c \in IniCases} \cup {NULL_STRING},
                {Recorder, NULL})

SpecIni == InitIni /\ [][IniParse]_vars

\* str without the whitespace it starts and ends with.
RECURSIVE Strip(_)
Strip(str) ==
    IF str = <<>> THEN <<>>
    ELSE IF isspace(str[1]) THEN Strip(Tail(str))
    ELSE IF isspace(str[Len(str)]) THEN Strip(Front(str))
    ELSE str

\* The name of the last section line among the first n lines, <<>> if none.
RECURSIVE SectionBefore(_, _)
SectionBefore(lines, n) ==
    IF n = 0 THEN <<>>
    ELSE IF lines[n].kind = "section" THEN lines[n].name
    ELSE SectionBefore(lines, n - 1)

\* The key-value lines among the first n lines, in order, each with the
\* section it is in.
RECURSIVE Entries(_, _)
Entries(lines, n) ==
    IF n = 0 THEN <<>>
    ELSE Entries(lines, n - 1)
         \o (IF lines[n].kind = "key_value"
             THEN <<[section |-> SectionBefore(lines, n),
                     key |-> lines[n].key, value |-> lines[n].value]>>
             ELSE <<>>)

\* The handler has asked to stop.
Stopped == ini.calls # <<>> /\ Last(ini.calls).ret # 0

\* The arguments of the invocations so far, the section stripped.
Invocations ==
    [i \in 1..Len(ini.calls) |->
        [section |-> Strip(ini.calls[i].section), key |-> ini.calls[i].key,
         value |-> ini.calls[i].value]]

\* The characters of a section name that fit the section buffer.
Fitting(name) ==
    SubSeq(name, 1, IF Len(name) < SECTION_BUFFER_SIZE THEN Len(name)
                    ELSE SECTION_BUFFER_SIZE - 1)

C13_EarlyTermination ==
    /\ [][(ini # NULL /\ Stopped) => ini'.calls = ini.calls]_vars
    /\ []((ini # NULL /\ ini.pc = "done") =>
             /\ ini.ret \in {0, -1}
             /\ Stopped => ini.ret = 0
             /\ ini.ret = -1 =>
                   /\ ini.calls = <<>>
                   /\ \/ ini.ini_string = NULL_STRING
                      \/ ini.handler = NULL
                      \/ ini.buffer = NULL_STRING
             /\ (/\ ini.ini_string # NULL_STRING
                 /\ ini.handler # NULL
                 /\ ini.buffer # NULL_STRING) => ini.ret = 0)

\* The handler stops the walk at the first of three key-value lines.
C13_Witness ==
    /\ ini # NULL
    /\ ini.pc = "done"
    /\ ini.ini_string =
           <<"a", "=", "1", "\n", "k", " ", "=", " ", "v", "\n",
             "a", "=", "1", "\n">>
    /\ Len(ini.calls) = 1
    /\ ini.calls[1].ret = 1
    /\ ini.ret = 0

\* str neither starts nor ends with whitespace.
Trimmed(str) ==
    str = <<>> \/ (~isspace(str[1]) /\ ~isspace(str[Len(str)]))

\* C14: INI trimming: in every invocation of the handler the key, the value
\* and the section name have no leading and no trailing whitespace.
C14_IniTrimmed ==
    ini # NULL =>
        \A i \in 1..Len(ini.calls) :
            /\ Trimmed(ini.calls[i].key)
            /\ Trimmed(ini.calls[i].value)
            /\ Trimmed(ini.calls[i].section)

(***************************************************************************)
(* The lexer cursor.  input is here the memory from the start of the text: *)
(* a text of up to MaxChars characters, its terminating NUL, and what the  *)
(* memory happens to hold after the NUL.                                   *)
(***************************************************************************)
Chars == {"a", "=", "[", "\"", "'", "\\", "\n"}

MaxChars == 4

\* What the memory after the terminating NUL may hold.
Beyond == {<<>>, <<"\"">>, <<"a", "\"">>}

Memories ==
    {text \o <<NUL>> \o beyond :
        text \in SeqsUpTo(Chars, MaxChars), beyond \in Beyond}

\* strlen(inp): the number of characters before the first NUL.
strlen(inp) ==
    LET nuls == {i \in 1..Len(inp) : inp[i] = NUL}
    IN  IF nuls = {} THEN Len(inp)
        ELSE (CHOOSE i \in nuls : \A k \in nuls : i <= k) - 1

InitMemory == InitWith(Memories, Sink)

SpecMemory == InitMemory /\ [][Parse]_vars

\* C17: the lexer cursor never moves past the terminating NUL of the input:
\* every lexer state a call of next_token leaves has 0 <= pos <= strlen.
C17_CursorInBounds ==
    \A k \in 1..Len(tokens) :
        /\ 0 <= tokens[k].lx.pos
        /\ tokens[k].lx.pos <= strlen(input)

(***************************************************************************)
(* Termination: texts of up to MaxLoopTokens lexemes, at the start of the  *)
(* text or inside an array literal, and a call that keeps running.         *)
(***************************************************************************)
LoopLexemes ==
    {<<"a">>, <<"=">>, <<"1">>, <<"[">>, <<"]">>, <<",">>, <<".">>,
     <<"\n">>, <<"@">>}

MaxLoopTokens == 3

LoopPrefixes == {<<>>, <<"a", "=", "[">>, <<"[", "[", "a">>}

LoopTexts ==
    {prefix \o text :
        prefix \in LoopPrefixes, text \in Texts(LoopLexemes, MaxLoopTokens)}

InitLoop == InitWith(LoopTexts, Sink)

\* The call is not suspended: it keeps taking steps until it has returned.
\* This is WF_vars(Parse) with pc # "done" written for ENABLED <<Parse>>_vars;
\* the two agree when every step before the return changes the state, which
\* the steps do when they consume a character or a token.
Running == pc # "done"

SpecLoop ==
    InitLoop /\ [][Parse]_vars /\ ([]<><<Parse>>_vars \/ []<>(~Running))

\* The number of calls of next_token behind the current token of p.
Consumed(p) ==
    LET read == {k \in 1..Len(tokens) :
                    tokens[k].lx = p.lexer /\ tokens[k].tok = p.current}
    IN  CHOOSE k \in read : \A j \in read : k <= j

\* The next call of next_token consumes a character unless it is at the end
\* of the input, and the next iteration of the driver loop consumes a token
\* or returns.
Progress ==
    /\ (/\ pc = "scan"
        /\ ~scan_complete(tokens)
        /\ ~is_at_end(input, scan_lexer(tokens))) =>
           scan_token(input, scan_lexer(tokens)).lx.pos
               > scan_lexer(tokens).pos
    /\ (pc = "loop" /\ parser.current.type # "EOF") =>
           LET r == loop_statement(input, tokens, parser, doc.root)
           IN  r.returned \/ Consumed(r.p) > Consumed(parser)

RedefPrefixes == {<<>>, <<"t", ".">>}

\* The lines before the statement: what the first pair of key a is bound to
\* (type), how many pairs have the key a (count), and whether the lines are
\* a header, which makes the table of a the current table.
RedefPriors ==
    {[lines |-> <<>>, type |-> "NONE", count |-> 0, header |-> FALSE],
     [lines |-> <<<<"a">> \o Assign \o <<"1">>>>,
      type |-> "INTEGER", count |-> 1, header |-> FALSE],
     [lines |-> <<<<"a">> \o Assign \o <<"\"", "s", "\"">>>>,
      type |-> "STRING", count |-> 1, header |-> FALSE],
     [lines |-> <<<<"a">> \o Assign \o <<"t", "r", "u", "e">>>>,
      type |-> "BOOLEAN", count |-> 1, header |-> FALSE],
     [lines |-> <<<<"a">> \o Assign \o <<"2", ".", "5">>>>,
      type |-> "FLOAT", count |-> 1, header |-> FALSE],
     [lines |-> <<<<"a">> \o Assign \o <<"[", "1", "]">>>>,
      type |-> "ARRAY", count |-> 1, header |-> FALSE],
     [lines |-> <<<<"a">> \o Assign \o <<"[", "]">>>>,
      type |-> "ARRAY", count |-> 1, header |-> FALSE],
     [lines |-> <<<<"a", ".", "x">> \o Assign \o <<"1">>>>,
      type |-> "TABLE", count |-> 1, header |-> FALSE],
     [lines |-> <<<<"a", ".", "x">> \o Assign \o <<"1">>,
                  <<"a">> \o Assign \o <<"1">>>>,
      type |-> "TABLE", count |-> 2, header |-> FALSE],
     [lines |-> <<<<"a">> \o Assign \o <<"[", "1", "]">>,
                  <<"a">> \o Assign \o <<"1">>>>,
      type |-> "ARRAY", count |-> 2, header |-> FALSE],
     [lines |-> <<<<"[", "a", "]">>>>,
      type |-> "TABLE", count |-> 1, header |-> TRUE],
     [lines |-> <<<<"[", "[", "a", "]", "]">>>>,
      type |-> "ARRAY", count |-> 1, header |-> TRUE]}

\* The statement: what opens it, what follows the key a, what a must be,
\* and whether the statement is a header.
RedefStatements ==
    {[open |-> <<"[">>, rest |-> <<"]">>, need |-> "TABLE", header |-> TRUE],
     [open |-> <<"[">>, rest |-> <<".", "b", "]">>, need |-> "TABLE",
      header |-> TRUE],
     [open |-> <<"[", "[">>, rest |-> <<"]", "]">>, need |-> "ARRAY",
      header |-> TRUE],
     [open |-> <<"[", "[">>, rest |-> <<".", "b", "]", "]">>,
      need |-> "TABLE", header |-> TRUE],
     [open |-> <<>>, rest |-> <<".", "b">> \o Assign \o <<"1">>,
      need |-> "TABLE", header |-> FALSE]}

\* A line with the prefix written before its key.
Prefixed(prefix, line) ==
    LET n == IF line[1] = "[" /\ line[2] = "[" THEN 2
             ELSE IF line[1] = "[" THEN 1 ELSE 0
    IN  SubSeq(line, 1, n) \o prefix \o SubSeq(line, n + 1, Len(line))

RedefText(prefix, prior, stmt) ==
    Flatten([i \in 1..Len(prior.lines) |->
                Prefixed(prefix, prior.lines[i]) \o NL])
    \o stmt.open \o prefix \o <<"a">> \o stmt.rest \o NL

RedefCases ==
    {[text |-> RedefText(prefix, prior, stmt), prefix |-> prefix,
      prior |-> prior, stmt |-> stmt] :
        prefix \in RedefPrefixes, prior \in RedefPriors,
        stmt \in RedefStatements}

RedefCaseOf ==
    [text \in {c.text : c \in RedefCases} |->
        CHOOSE c \in RedefCases : c.text = text]

InitRedef == InitWith({c.text : c \in RedefCases}, Sink)

SpecRedef == InitRedef /\ [][Parse]_vars

\* What the key a of the statement is bound to in the table where the
\* statement looks it up: a dotted key after a header is resolved in the
\* table of the header, which is empty.
BoundTo(c) ==
    IF c.prior.header /\ ~c.stmt.header THEN "NONE" ELSE c.prior.type

Incompatible(c) == BoundTo(c) \notin {"NONE", c.stmt.need}

\* The number of pairs of tbl with the key key.
Bindings(tbl, key) == Cardinality({i \in 1..Len(tbl) : tbl[i].key = key})

\* C18: type-incompatible redefinition: the parse fails when a key that a
\* header or a dotted key needs as a Table is bound, by the first pair with
\* that key, to a value that is not a Table, and when the last key of an
\* array-of-tables header is bound to a value that is not an Array; a key
\* bound to a Table (or an Array) is reused, no pair is added for it and
\* the parse succeeds.
C18_Redefinition ==
    (pc = "done" /\ input \in DOMAIN RedefCaseOf) =>
        LET c == RedefCaseOf[input]
            home == IF c.prefix = <<>> THEN result.root
                    ELSE FirstValue(result.root, <<"t">>).t
        IN  /\ Incompatible(c) <=> result = NULL
            /\ Incompatible(c) => parser.panic_mode
            /\ (~Incompatible(c) /\ BoundTo(c) # "NONE") =>
                  /\ Bindings(home, <<"a">>) = c.prior.count
                  /\ FirstValue(home, <<"a">>).type = c.stmt.need

\* a = 1 followed by [a].
C18_Witness ==
    /\ pc = "done"
    /\ input = <<"a", " ", "=", " ", "1", "\n", "[", "a", "]", "\n">>
    /\ result = NULL
    /\ parser.error_buffer.message = "Failed to create or find table."

(***************************************************************************)
(* Statements: one line of words separated by blanks, none of them a       *)
(* bracket, so that the line is no table header; at the start of the text  *)
(* or after the header [t].                                                *)
(***************************************************************************)
Words == {"a", "b", ".", "=", "1"}

MaxWords == 4

WordLists == SeqsUpTo(Words, MaxWords) \ {<<>>}

StatementPrefixes == {<<>>, <<"[", "t", "]", "\n">>}

StatementText(prefix, words) ==
    prefix \o Join([i \in 1..Len(words) |-> <<words[i]>>], <<" ">>) \o NL

StatementCases ==
    {[text |-> StatementText(prefix, words), words |-> words] :
        prefix \in StatementPrefixes, words \in WordLists}

StatementCaseOf ==
    [text \in {c.text : c \in StatementCases} |->
        (CHOOSE c \in StatementCases : c.text = text).words]

InitStatements == InitWith(DOMAIN StatementCaseOf, Sink)

SpecStatements == InitStatements /\ [][Parse]_vars

\* key ('.' key)* '=' value, the value being the integer 1.
KeyValueForm(words) ==
    LET n == Len(words)
    IN  /\ n >= 3
        /\ n % 2 = 1
        /\ words[n] = "1"
        /\ words[n - 1] = "="
        /\ \A i \in 1..(n - 2) :
              IF i % 2 = 1 THEN words[i] \in {"a", "b"} ELSE words[i] = "."

\* C19: a statement that is no table header is accepted only if it has the
\* form key ('.' key)* '=' value; a line of any other form, such as a bare
\* key followed by another bare key, makes the parse fail.
C19_SyntaxErrors ==
    (pc = "done" /\ input \in DOMAIN StatementCaseOf) =>
        (result # NULL => KeyValueForm(StatementCaseOf[input]))

(***************************************************************************)
(* Scalar arrays: lines that bind a key to an array of scalars, to an      *)
(* empty array or to an array of arrays, among scalar pairs and the        *)
(* header [t].                                                             *)
(***************************************************************************)
ArrayPairLines ==
    {<<"x">> \o Assign \o <<"5">> \o NL,
     <<"e">> \o Assign \o <<"[", "]">> \o NL,
     <<"a">> \o Assign \o <<"[", "1", "]">> \o NL,
     <<"b">> \o Assign \o <<"[", "1", ",", " ", "2", "]">> \o NL,
     <<"s">> \o Assign \o <<"[", "\"", "h", "\"", ",", " ", "t", "r", "u",
                            "e", "]">> \o NL,
     <<"m">> \o Assign \o <<"[", "[", "1", "]", "]">> \o NL,
     <<"[", "t", "]">> \o NL}

MaxArrayLines == 3

InitArrayPairs == InitWith(Texts(ArrayPairLines, MaxArrayLines), Sink)

SpecArrayPairs == InitArrayPairs /\ [][Parse \/ Serialize]_vars

\* text holds line, from some position on.
Occurs(line, text) ==
    \E k \in 0..(Len(text) - Len(line)) :
        SubSeq(text, k + 1, k + Len(line)) = line

\* [ v1, v2, ... ]: the elements in index order.
RECURSIVE InlineArray(_)
InlineArray(a) ==
    <<"[", " ">>
    \o Join([i \in 1..Len(a) |->
                IF a[i].type = "ARRAY" THEN InlineArray(a[i].a)
                ELSE cconfig_serialize_value(a[i])], <<",", " ">>)
    \o <<" ", "]">>

\* The pairs of tbl that hold an array which is empty or whose first
\* element is not a table.
ScalarArrays(tbl) ==
    {i \in 1..Len(tbl) :
        /\ tbl[i].value.type = "ARRAY"
        /\ Len(tbl[i].value.a) = 0 \/ tbl[i].value.a[1].type # "TABLE"}

\* The root table and the tables bound to its keys.
TablesOf(root) ==
    {root} \cup {root[i].value.t :
                    i \in {j \in 1..Len(root) : root[j].value.type = "TABLE"}}

\* C20: serialization of scalar arrays: every pair whose value is an array
\* that is empty or whose first element is not a table appears in the
\* serialized text as the line key = [ v1, v2, ... ].
C20_ScalarArrays ==
    (pc = "done" /\ result # NULL /\ output # NULL_STRING) =>
        \A tbl \in TablesOf(result.root) : \A i \in ScalarArrays(tbl) :
            Occurs(tbl[i].key \o Assign \o InlineArray(tbl[i].value.a) \o NL,
                   output)

(***************************************************************************)
(* Allocation failures: texts of pairs with an integer, a literal string,  *)
(* an array and a value that is no value, and of the header [t]; every     *)
(* set of at most MaxFailures failing requests among the first             *)
(* MaxRequests.                                                            *)
(***************************************************************************)
HeapLines ==
    {[text |-> <<"k">> \o Assign \o <<"1">> \o NL, form |-> "pair",
      key |-> <<"k">>, value |-> [type |-> "INTEGER"]],
     [text |-> <<"k">> \o Assign \o <<"'", "s", "'">> \o NL, form |-> "pair",
      key |-> <<"k">>, value |-> [type |-> "STRING"]],
     [text |-> <<"k">> \o Assign \o <<"[", "1", "]">> \o NL, form |-> "pair",
      key |-> <<"k">>,
      value |-> [type |-> "ARRAY", elements |-> <<[type |-> "INTEGER"]>>]],
     [text |-> <<"k">> \o Assign \o <<"@">> \o NL, form |-> "pair",
      key |-> <<"k">>, value |-> [type |-> "NONE"]],
     [text |-> <<"[", "t", "]">> \o NL, form |-> "header",
      key |-> <<"t">>, value |-> [type |-> "NONE"]]}

MaxHeapLines == 2

MaxRequests == 12

MaxFailures == 2

HeapPrograms ==
    {[text |-> Flatten([i \in 1..Len(lines) |-> lines[i].text]),
      statements |-> lines] : lines \in SeqsUpTo(HeapLines, MaxHeapLines)}

FailureSets ==
    {fails \in SUBSET (1..MaxRequests) : Cardinality(fails) <= MaxFailures}

InitHeap == InitHeapWith(HeapPrograms, FailureSets, BOOLEAN)

SpecHeap == InitHeap /\ [][HeapParse]_vars

\* C15: when cconfig_parse fails, every block allocated during the call has
\* been released exactly once when the call returns, and at no point of
\* the call is a NULL that an allocation returned written through.
C15_Unwind ==
    heap # NULL =>
        /\ ~heap.null_deref
        /\ (heap.pc = "done" /\ heap.ret = "NULL") =>
              \A c \in 1..Len(heap.cells) : heap.cells[c].frees = 1

(***************************************************************************)
(* Serializer headers, on the round-trip texts.                            *)
(***************************************************************************)
\* The pairs of table that hold neither a table nor an array.
SimplePairs(table) ==
    SelectSeq(table, LAMBDA pair : pair.value.type \notin {"TABLE", "ARRAY"})

\* The key = value lines of the simple pairs of table.
SimpleLines(table) ==
    Flatten([i \in 1..Len(SimplePairs(table)) |->
                SimplePairs(table)[i].key \o Assign
                \o cconfig_serialize_value(SimplePairs(table)[i].value)
                \o NL])

\* The tables reached from table through keys bound to tables, each with
\* the keys that lead to it.
RECURSIVE PlainTables(_, _)
PlainTables(table, path) ==
    UNION {{[path |-> path \o <<table[i].key>>, table |-> table[i].value.t]}
           \cup PlainTables(table[i].value.t, path \o <<table[i].key>>) :
               i \in {j \in 1..Len(table) : table[j].value.type = "TABLE"}}

\* [k1.k2...kn]
HeaderLine(path) == <<"[">> \o Join(path, <<".">>) \o <<"]">> \o NL

\* C21: serializer headers: the simple pairs of the root come first, with
\* no header; a table reached through plain-table keys k1..kn that has a
\* simple pair gets the header line [k1.k2...kn] immediately before its
\* simple pairs, and a table with no simple pair gets no header line.
C21_SerializerHeaders ==
    (pc = "done" /\ result # NULL /\ output # NULL_STRING) =>
        /\ SubSeq(output, 1, Len(SimpleLines(result.root)))
              = SimpleLines(result.root)
        /\ \A t \in PlainTables(result.root, <<>>) :
              IF SimplePairs(t.table) # <<>>
              THEN Occurs(HeaderLine(t.path) \o SimpleLines(t.table), output)
              ELSE ~Occurs(HeaderLine(t.path), output)

(***************************************************************************)
(* Serialization order: texts of distinct lines, every key a letter of its *)
(* own and every scalar a digit, so that the place of a key in the         *)
(* serialized text is the place of its letter.                             *)
(***************************************************************************)
OrderLines ==
    {<<"x">> \o Assign \o <<"1">> \o NL,
     <<"y">> \o Assign \o <<"2">> \o NL,
     <<"a", ".", "p">> \o Assign \o <<"1">> \o NL,
     <<"b", ".", "q">> \o Assign \o <<"2">> \o NL,
     <<"e">> \o Assign \o <<"[", "1", "]">> \o NL,
     <<"[", "t", "]">> \o NL,
     <<"[", "[", "s", "]", "]">> \o NL}

MaxOrderLines == 3

OrderTexts ==
    {Flatten(s) : s \in {q \in SeqsUpTo(OrderLines, MaxOrderLines) :
                            \A i, j \in 1..Len(q) : q[i] = q[j] => i = j}}

InitOrder == InitWith(OrderTexts, Sink)

SpecOrder == InitOrder /\ [][Parse \/ Serialize]_vars

\* Every table of the document: the root, the tables bound to keys and the
\* tables that are elements of arrays.
RECURSIVE AllTables(_)
AllTables(table) ==
    {table}
    \cup UNION {AllTables(table[i].value.t) :
                   i \in {j \in 1..Len(table) : table[j].value.type = "TABLE"}}
    \cup UNION {UNION {AllTables(table[i].value.a[k].t) :
                          k \in {n \in 1..Len(table[i].value.a) :
                                    table[i].value.a[n].type = "TABLE"}} :
                   i \in {j \in 1..Len(table) : table[j].value.type = "ARRAY"}}

\* The place of the key in the serialized text, 0 when it is not there.
KeyPlace(key) ==
    LET at == {k \in 1..Len(output) : output[k] = key[1]}
    IN  IF at = {} THEN 0 ELSE CHOOSE k \in at : \A j \in at : k <= j

Scalar(value) == value.type \notin {"TABLE", "ARRAY"}

\* The pairs i before j of table are written, and in this order.
InOrder(table, i, j) ==
    (KeyPlace(table[i].key) > 0 /\ KeyPlace(table[j].key) > 0)
        => KeyPlace(table[i].key) < KeyPlace(table[j].key)

Serialized == pc = "done" /\ result # NULL /\ output # NULL_STRING

\* C22 as stated: the keys of every table appear in the serialized text in
\* the order in which their pairs were inserted, whatever their values.
C22_AsStated ==
    Serialized =>
        \A table \in AllTables(result.root) :
            \A i, j \in 1..Len(table) : i < j => InOrder(table, i, j)

\* C22: serialization order: in every table the keys bound to scalars
\* appear in insertion order, the keys bound to tables and arrays of
\* tables appear in insertion order, and every key bound to a scalar
\* appears before every key of the table bound to a table or an array of
\* tables.
C22_SerializationOrder ==
    Serialized =>
        \A table \in AllTables(result.root) :
            \A i, j \in 1..Len(table) :
                /\ (i < j /\ Scalar(table[i].value) = Scalar(table[j].value))
                      => InOrder(table, i, j)
                /\ (Scalar(table[i].value) /\ ~Scalar(table[j].value))
                      => /\ KeyPlace(table[i].key) > 0
                         /\ InOrder(table, i, j)

\* a.p = 1 before x = 1: x is written first.
C22_Witness ==
    /\ Serialized
    /\ input = <<"a", ".", "p">> \o Assign \o <<"1">> \o NL
               \o <<"x">> \o Assign \o <<"1">> \o NL
    /\ KeyPlace(<<"x">>) = 1
    /\ KeyPlace(<<"a">>) > KeyPlace(<<"x">>)

(***************************************************************************)
(* Value tags: a pair, a dotted pair or a pair under [t] whose value is a  *)
(* scalar, an array, a date, a brace, or an array that holds a date or a   *)
(* brace; alone or followed by another pair.                               *)
(***************************************************************************)
Date == <<"2", "0", "2", "4", "-", "0", "1", "-", "0", "2">>

\* The text of a value, and whether a date or a brace stands where a value
\* is expected.
TaggedValues ==
    {[text |-> <<"1">>, untyped |-> FALSE],
     [text |-> <<"\"", "s", "\"">>, untyped |-> FALSE],
     [text |-> <<"t", "r", "u", "e">>, untyped |-> FALSE],
     [text |-> <<"2", ".", "5">>, untyped |-> FALSE],
     [text |-> <<"[", "]">>, untyped |-> FALSE],
     [text |-> <<"[", "1", ",", " ", "2", "]">>, untyped |-> FALSE],
     [text |-> <<"[", "[", "1", "]", "]">>, untyped |-> FALSE],
     [text |-> Date, untyped |-> TRUE],
     [text |-> <<"{">>, untyped |-> TRUE],
     [text |-> <<"{", "}">>, untyped |-> TRUE],
     [text |-> <<"[">> \o Date \o <<"]">>, untyped |-> TRUE],
     [text |-> <<"[", "1", ",", " ">> \o Date \o <<"]">>, untyped |-> TRUE],
     [text |-> <<"[", "{", "]">>, untyped |-> TRUE],
     [text |-> <<"[", "[", "{", "]", "]">>, untyped |-> TRUE]}

TaggedKeys ==
    {<<"k">>, <<"a", ".", "k">>, <<"[", "t", "]", "\n", "k">>}

TaggedTails == {<<>>, <<"y">> \o Assign \o <<"1">> \o NL}

TaggedCases ==
    {[text |-> key \o Assign \o value.text \o NL \o tail,
      untyped |-> value.untyped] :
        key \in TaggedKeys, value \in TaggedValues, tail \in TaggedTails}

TaggedCaseOf ==
    [text \in {c.text : c \in TaggedCases} |->
        CHOOSE c \in TaggedCases : c.text = text]

InitTagged == InitWith(DOMAIN TaggedCaseOf, Sink)

SpecTagged == InitTagged /\ [][Parse]_vars

ValueTypes == {"STRING", "INTEGER", "FLOAT", "BOOLEAN", "ARRAY", "TABLE"}

\* Every value of the tree under value has one of the six tags.
RECURSIVE Typed(_)
Typed(value) ==
    /\ value.type \in ValueTypes
    /\ value.type = "TABLE" =>
          \A i \in 1..Len(value.t) : Typed(value.t[i].value)
    /\ value.type = "ARRAY" =>
          \A i \in 1..Len(value.a) : Typed(value.a[i])

\* C23: no document holds a value tagged None or Datetime, while it is
\* built and when it is returned, and a text with a date or a brace in
\* value position makes the parse fail.
C23_ValueTags ==
    /\ doc # NULL => Typed(Table(doc.root))
    /\ result # NULL => Typed(Table(result.root))
    /\ (pc = "done" /\ input \in DOMAIN TaggedCaseOf) =>
          (TaggedCaseOf[input].untyped => result = NULL)

\* k = 2024-01-02: the date is a Datetime token and the parse fails.
C23_Witness ==
    /\ pc = "done"
    /\ input = <<"k">> \o Assign \o Date \o NL
    /\ \E k \in 1..Len(tokens) :
          tokens[k].tok.type = "DATETIME" /\ tokens[k].tok.len = 10
    /\ result = NULL

(***************************************************************************)
(* Array literals and [[...]] headers on one key: up to MaxMixLines lines  *)
(* that bind p to an array literal, append a table to p or to p.p, or add  *)
(* a pair.                                                                 *)
(***************************************************************************)
MixLines ==
    {<<"p">> \o Assign \o <<"[", "]">> \o NL,
     <<"p">> \o Assign \o <<"[", "1", "]">> \o NL,
     <<"p", ".", "p">> \o Assign \o <<"[", "2", "]">> \o NL,
     <<"[", "[", "p", "]", "]">> \o NL,
     <<"[", "[", "p", ".", "p", "]", "]">> \o NL,
     <<"k">> \o Assign \o <<"1">> \o NL}

MaxMixLines == 3

InitMix == InitWith(Texts(MixLines, MaxMixLines), Sink)

SpecMix == InitMix /\ [][Parse \/ Serialize]_vars

\* Every array of the tree under value whose first element is a table
\* holds tables only.
RECURSIVE TablesOnly(_)
TablesOnly(value) ==
    /\ value.type = "TABLE" =>
          \A i \in 1..Len(value.t) : TablesOnly(value.t[i].value)
    /\ value.type = "ARRAY" =>
          /\ \A i \in 1..Len(value.a) : TablesOnly(value.a[i])
          /\ (Len(value.a) > 0 /\ value.a[1].type = "TABLE") =>
                \A i \in 1..Len(value.a) : value.a[i].type = "TABLE"

\* C24: in every document, while it is built and when it is returned, an
\* array whose first element is a table holds tables only, so the loop of
\* the serializer over such an array reads the table of a table.
C24_TablesOnly ==
    /\ doc # NULL => TablesOnly(Table(doc.root))
    /\ result # NULL => TablesOnly(Table(result.root))

\* p = [] followed by two [[p]]: the array literal holds two tables, and
\* the document is serialized.
C24_Witness ==
    /\ pc = "done"
    /\ result # NULL
    /\ output # NULL_STRING
    /\ FirstValue(result.root, <<"p">>) = Array(<<Table(<<>>), Table(<<>>)>>)
    /\ Len(result.root) = 1

(***************************************************************************)
(* The current-table cursor, on the header texts.                          *)
(***************************************************************************)
\* C25: the cursor parser.current_table is changed only by an iteration of
\* the loop that starts at '[', and an iteration for a key-value statement,
\* dotted or not, changes the document only inside the table the cursor
\* points to.
C25_CursorFrame ==
    [][/\ parser'.current_table # parser.current_table
            => (pc = "loop" /\ parser.current.type = "LBRACKET")
       /\ (/\ pc = "loop"
           /\ parser.current.type \notin {"EOF", "NEWLINE", "COMMENT",
                                          "LBRACKET"}
           /\ doc' # doc)
            => /\ TableAt(doc'.root, parser.current_table)
                    # TableAt(doc.root, parser.current_table)
               /\ SetTableAt(doc'.root, parser.current_table,
                             TableAt(doc.root, parser.current_table))
                    = doc.root]_vars

\* [s], db.port = 5, port = 5: both pairs are in the table s.
C25_Witness ==
    /\ pc = "done"
    /\ input = <<"[", "s", "]", "\n", "d", "b", ".", "p", "o", "r", "t",
                 " ", "=", " ", "5", "\n", "p", "o", "r", "t", " ", "=", " ",
                 "5", "\n">>
    /\ result # NULL
    /\ parser.current_table = <<<<1, 0>>>>
    /\ FirstValue(result.root, <<"s">>) =
          Table(<<Pair(<<"d", "b">>,
                       Table(<<Pair(<<"p", "o", "r", "t">>, Integer(5))>>)),
                  Pair(<<"p", "o", "r", "t">>, Integer(5))>>)

(***************************************************************************)
(* Error position, on the texts of arbitrary token order.                  *)
(***************************************************************************)
\* The tokens of the scan that the parser can hold as current or previous.
Parsed == SelectSeq([k \in 1..Len(tokens) |-> tokens[k].tok],
                    LAMBDA tok : tok.type # "ERROR")

\* The token the parser held as previous when tok was current: the token
\* before tok among the parsed ones, the zero token before the first.
Preceding(tok) ==
    LET at == {k \in 1..Len(Parsed) : Parsed[k] = tok}
        first == CHOOSE k \in at : \A j \in at : k <= j
    IN  IF at = {} \/ first = 1 THEN ZeroToken ELSE Parsed[first - 1]

\* The token before the first error token of the scan, the zero token when
\* there is none.
BeforeFirstError ==
    LET errors == {k \in 1..Len(tokens) : tokens[k].tok.type = "ERROR"}
        first == CHOOSE k \in errors : \A j \in errors : k <= j
        before == {k \in 1..(first - 1) : tokens[k].tok.type # "ERROR"}
    IN  IF before = {} THEN ZeroToken
        ELSE tokens[CHOOSE k \in before : \A j \in before : j <= k].tok

LexerMessages ==
    {"Unexpected character.", "Unterminated string.",
     "Unterminated string (newline in single-line string)."}

ReportedAt(tok, text) == text.line = tok.line /\ text.col = tok.col

C27_PositionInInput ==
    \A k \in 1..Len(parser.calls) :
        parser.calls[k].line >= 1 /\ parser.calls[k].col >= 1

(***************************************************************************)
(* Number-like values: a pair, a dotted pair or a pair under [t] whose     *)
(* value starts with a digit or a sign; alone or followed by another pair. *)
(***************************************************************************)
NumberTexts ==
    {<<"2", "0", "2", "4", "-", "0", "1", "-", "1", "5">>,
     <<"2", "0", "2", "4", "-", "0", "1", "-", "1", "5", "T">>,
     <<"2", "0", "2", "4", "-", "0", "1", "-", "1">>,
     <<"2", "0", "2", "4", "-", "1", "-", "1", "5">>,
     <<"2", "0", "2", "4", "0", "-", "0", "1", "-", "1", "5">>,
     <<"2", "0", "2", "-", "0", "1", "-", "1", "5">>,
     <<"+", "2", "0", "2", "-", "0", "1", "-", "1", "5">>,
     <<"-", "2", "0", "2", "-", "0", "1", "-", "1", "5">>,
     <<"1", "a", "b", "c", "-", "1", "2", "-", "3", "4">>,
     <<"1", ".", "5", "e", "-", "1", "2", "-", "3", "4">>,
     <<"1", " ", "=", " ", "-", "1", "2", "-", "3", "4">>,
     <<"1", " ", "#", "c", "-", "1", "2", "-", "3", "4">>,
     <<"1", "\n", "k", "2", "-", "1", "2", "-", "3", "4">>,
     <<"2", "0", "2", "4">>,
     <<"-", "7">>,
     <<"1", ".", "5">>,
     <<"1", "e", "5">>,
     <<"2", ".", "5", "E", "+", "3">>}

NumberKeys == {<<"k">>, <<"a", ".", "k">>, <<"[", "t", "]", "\n", "k">>}

NumberTails == {<<>>, <<"y">> \o Assign \o <<"1">> \o NL}

NumberCases ==
    {key \o Assign \o number \o NL \o tail :
        key \in NumberKeys, number \in NumberTexts, tail \in NumberTails}

InitNumbers == InitWith(NumberCases, Sink)

SpecNumbers == InitNumbers /\ [][Parse]_vars

\* 4 digits, '-', 2 digits, '-', 2 digits.
DateShape(text) ==
    /\ Len(text) = 10
    /\ \A k \in {1, 2, 3, 4, 6, 7, 9, 10} : isdigit(text[k])
    /\ text[5] = "-" /\ text[8] = "-"

\* The text starts like a number: a digit, '-' or '+'.
NumberLike(inp, pos) == isdigit(At(inp, pos)) \/ At(inp, pos) \in {"-", "+"}

\* C28: a Datetime token covers exactly 10 characters of the shape 4 digits,
\* '-', 2 digits, '-', 2 digits, and a token that starts at a digit or a
\* sign where the text does not have that shape is an Integer or a Float.
\* The test at the head of the number branch asks for a digit only in the
\* first position: 1abc-12-34 is a Datetime token.
C28_DatetimeShape ==
    \A k \in 1..Len(tokens) :
        LET tok == tokens[k].tok
        IN  /\ tok.type = "DATETIME" =>
                  /\ tok.len = 10
                  /\ DateShape(Slice(input, tok.start, tok.len))
            /\ (/\ tok.type \notin {"ERROR", "EOF"}
                /\ NumberLike(input, tok.start)
                /\ ~DateShape(Slice(input, tok.start, 10))) =>
                  tok.type \in {"INTEGER", "FLOAT"}

(***************************************************************************)
(* String values: a pair, a dotted pair or a pair under [t] whose value is *)
(* a string text, closed or not, with or without a newline inside; alone   *)
(* or followed by another pair.  `open` says that the closing delimiter    *)
(* never appears, `newline` that a single-line string holds a newline      *)
(* before its closing delimiter.                                           *)
(***************************************************************************)
DQ == "\""

Backslash == "\\"

StringTexts ==
    {[text |-> <<DQ, "a", "b", DQ>>, open |-> FALSE, newline |-> FALSE],
     [text |-> <<"'", "a", "b", "'">>, open |-> FALSE, newline |-> FALSE],
     [text |-> <<DQ, DQ>>, open |-> FALSE, newline |-> FALSE],
     [text |-> <<DQ, "a", Backslash, DQ, "b", DQ>>, open |-> FALSE, newline |-> FALSE],
     [text |-> <<"'", "a", Backslash, "'">>, open |-> FALSE, newline |-> FALSE],
     [text |-> <<DQ, DQ, DQ, "a", "\n", "b", DQ, DQ, DQ>>,
      open |-> FALSE, newline |-> FALSE],
     [text |-> <<"'", "'", "'", "a", "\n", "b", "'", "'", "'">>,
      open |-> FALSE, newline |-> FALSE],
     [text |-> <<DQ, "a">>, open |-> TRUE, newline |-> FALSE],
     [text |-> <<"'", "a">>, open |-> TRUE, newline |-> FALSE],
     [text |-> <<DQ, "a", Backslash, DQ>>, open |-> TRUE, newline |-> FALSE],
     [text |-> <<DQ, DQ, DQ, "a", DQ, DQ>>, open |-> TRUE, newline |-> FALSE],
     [text |-> <<"'", "'", "'", "a", "\n", "b">>,
      open |-> TRUE, newline |-> FALSE],
     [text |-> <<DQ, "a", "\n", "b", DQ>>, open |-> FALSE, newline |-> TRUE],
     [text |-> <<"'", "a", "\n", "b", "'">>, open |-> FALSE, newline |-> TRUE],
     [text |-> <<"'", "a", Backslash, "\n", "b", "'">>,
      open |-> FALSE, newline |-> TRUE],
     [text |-> <<DQ, "a", Backslash, "\n", "b", DQ>>,
      open |-> FALSE, newline |-> TRUE]}

StringKeys == {<<"k">>, <<"a", ".", "k">>, <<"[", "t", "]", "\n", "k">>}

\* An open string takes the rest of the text with it: the tail stands for
\* what follows a closed one.
StringTails == {<<>>, <<"y">> \o Assign \o <<"1">> \o NL}

StringCases ==
    {[text |-> key \o Assign \o string.text
                   \o (IF string.open THEN <<>> ELSE NL \o tail),
      open |-> string.open, newline |-> string.newline] :
        key \in StringKeys, string \in StringTexts, tail \in StringTails}

StringCaseOf ==
    [text \in {c.text : c \in StringCases} |->
        CHOOSE c \in StringCases : c.text = text]

InitStrings == InitWith(DOMAIN StringCaseOf, Sink)

SpecStrings == InitStrings /\ [][Parse]_vars

\* The token is a String token of a single-line string: one delimiter.
SingleLine(tok) ==
    /\ tok.type = "STRING"
    /\ ~(/\ tok.len >= 6
         /\ At(input, tok.start + 1) = At(input, tok.start)
         /\ At(input, tok.start + 2) = At(input, tok.start))

Spans(tok, c) == \E k \in 0..(tok.len - 1) : At(input, tok.start + k) = c

\* C29: a string that is never closed, and a single-line string with a
\* newline before its closing delimiter, produce an error token and the
\* parse fails; no String token of a single-line string spans a newline.
\* In a double-quoted string the character after a backslash is skipped
\* unread, a newline included: "a\<newline>b" is one String token.
C29_UnterminatedStrings ==
    /\ (/\ pc = "done"
        /\ input \in DOMAIN StringCaseOf
        /\ StringCaseOf[input].open \/ StringCaseOf[input].newline) =>
              /\ \E k \in 1..Len(tokens) : tokens[k].tok.type = "ERROR"
              /\ result = NULL
    /\ \A k \in 1..Len(tokens) :
          SingleLine(tokens[k].tok) => ~Spans(tokens[k].tok, "\n")

(***************************************************************************)
(* Long keys: lines k = v whose key is as long as the key buffer of the    *)
(* resolver, one character shorter or one longer, and the header [t], in   *)
(* any order; the paths name a long key in the root or in t.               *)
(***************************************************************************)
KeyLengths == {KEY_BUFFER_SIZE - 1, KEY_BUFFER_SIZE, KEY_BUFFER_SIZE + 1}

\* Two keys of n characters that differ in the last one.
LongKeysOf(n) ==
    {[k \in 1..n |-> "a"], [k \in 1..n |-> IF k = n THEN "b" ELSE "a"]}

LongKeys == UNION {LongKeysOf(n) : n \in KeyLengths}

LongLines ==
    {[key |-> k, v |-> v] : k \in LongKeys, v \in {Lit1, Lit2}}
    \cup {[key |-> <<>>, v |-> Lit1]}

MaxLongLines == 2

LongCases == {DupText(lines) : lines \in SeqsUpTo(LongLines, MaxLongLines)}

LongPaths == LongKeys \cup {<<"t", ".">> \o k : k \in LongKeys}

GetLong == Get(LongPaths)

InitLong == InitWith(LongCases, Sink)

SpecLong == InitLong /\ [][Parse \/ GetLong]_vars

\* The table a path of LongPaths looks into, NULL when the path goes
\* through t and the root has no table t; and the key it looks for.
TableOfPath(key_path) ==
    IF key_path \in LongKeys THEN Table(result.root)
    ELSE FirstValue(result.root, <<"t">>)

KeyOfPath(key_path) ==
    IF key_path \in LongKeys THEN key_path
    ELSE SubSeq(key_path, 3, Len(key_path))

\* What a call returns when the key resolves in its table, and when the
\* resolution fails.
Resolved(c) ==
    c.ret = TypedResult(c.fn,
                IF TableOfPath(c.key_path) = NULL THEN NULL
                ELSE FirstValue(TableOfPath(c.key_path).t,
                                KeyOfPath(c.key_path)),
                c.default_val)

Failed(c) == c.ret = TypedResult(c.fn, NULL, c.default_val)

Called == pc = "done" /\ result # NULL /\ call # NULL

\* C30 as stated: a key segment longer than KEY_BUFFER_SIZE characters makes
\* the resolution fail, and a segment of at most KEY_BUFFER_SIZE characters
\* resolves to the first pair with exactly that key.
C30_AsStated ==
    Called =>
        IF Len(KeyOfPath(call.key_path)) > KEY_BUFFER_SIZE
        THEN Failed(call)
        ELSE Resolved(call)

\* C30: the buffer holds the key and its terminator: a key segment of
\* KEY_BUFFER_SIZE characters or more makes the resolution fail, whether or
\* not the table holds a pair with that key, and a segment of at most
\* KEY_BUFFER_SIZE - 1 characters resolves to the first pair with exactly
\* that key.
C30_KeyLengthLimit ==
    Called =>
        IF Len(KeyOfPath(call.key_path)) >= KEY_BUFFER_SIZE
        THEN Failed(call)
        ELSE Resolved(call)

\* A pair whose key has KEY_BUFFER_SIZE characters is in the table and is
\* not found; the pair with one character less is found.
C30_Witness ==
    /\ Called
    /\ call.fn = "get_int"
    /\ call.default_val = -7
    /\ Len(call.key_path) = KEY_BUFFER_SIZE
    /\ FirstValue(result.root, call.key_path) = Integer(1)
    /\ call.ret = -7
    /\ \E k \in LongKeys :
          /\ Len(k) = KEY_BUFFER_SIZE - 1
          /\ FirstValue(result.root, k) = Integer(2)
          /\ cconfig_get_int(result, k, -7) = 2

====
